---- MODULE Spec2Model ----
(***************************************************************************)
(* Q4Trackr / cycle-aware-wnba: the satirical Node modules (MoodMeeter,    *)
(* CrampCast, MoodSwingMeter, Ovulytics), the express handler              *)
(* GET /prediction/:playerName, the R routines predict_ensemble,           *)
(* engineer_features, predict_cycle_phase and parity_check, and the React  *)
(* and Shiny dashboards.                                                   *)
(*                                                                         *)
(* Numbers.  JavaScript and R doubles are modelled as fixed-point          *)
(* integers; every operator states its unit.  Math.random() is a value r   *)
(* in thousandths, 0 <= r <= 999, standing for r/1000 in [0,1).            *)
(***************************************************************************)
EXTENDS Integers, Sequences, FiniteSets, TLC

VARIABLES
    \* ---- one call of a satirical module (pure functions of their inputs)
    playerName,   \* argument playerName
    gameDate,     \* argument gameDate, as parsed by new Date(gameDate)
    tz,           \* host time zone, hours east of UTC
    call,         \* "none", or the module method that was called
    result,       \* the object the call returned
    \* ---- the express server of q4trackr.js
    modules,      \* the four shared module instances (their fields)
    serverDate,   \* const gameDate, computed once at start-up
    reqs,         \* per request: position in the handler and its locals
    \* ---- predict_ensemble
    ensInput,     \* per row: what the lasso and the random forest predict
    ensResult,    \* the data.frame returned
    \* ---- engineer_features
    df,           \* the raw merged data.frame (a sequence of rows)
    dfLagged,     \* df after the mutate/arrange/group_by/lag chain
    dfOut,        \* the data.frame returned
    \* ---- predict_cycle_phase
    athlete_data,       \* the argument: its columns, its records, the ML output
    final_predictions,  \* the error raised or the data.frame returned
    \* ---- parity_check
    parity_env,      \* the arguments and what the environment answers
    parity_results,  \* the list returned
    \* ---- the React dashboard and the Shiny dashboard
    route,        \* the path the React router shows
    ethicsMode,   \* useState of Dashboard
    satire,       \* input$satire of the Shiny app
    renders,      \* what was on screen after each event so far
    \* ---- sync_betting_spreads
    spread_env,   \* the arguments of the call
    spread_run,   \* the position in the function, its locals and its result
    \* ---- the prediction Wizard and the LiveProjectionsPanel
    wizard,       \* step and form of the Wizard
    panel,        \* the useState values of LiveProjectionsPanel
    \* ---- predict_daily
    daily_env,    \* newdata, threshold and the ensemble's probabilities
    daily_result  \* the data frame returned

moduleVars == <<playerName, gameDate, tz, call, result>>
serverVars == <<modules, serverDate, reqs>>
ensVars == <<ensInput, ensResult>>
featVars == <<df, dfLagged, dfOut>>
phaseVars == <<athlete_data, final_predictions>>
parityVars == <<parity_env, parity_results>>
uiVars == <<route, ethicsMode, satire, renders>>
spreadVars == <<spread_env, spread_run>>
dailyVars == <<daily_env, daily_result>>
lateVars == <<spreadVars, wizard, panel, dailyVars>>
restVars == <<phaseVars, parityVars, uiVars, lateVars>>
vars == <<playerName, gameDate, tz, call, result, modules, serverDate, reqs,
          ensInput, ensResult, df, dfLagged, dfOut, athlete_data, final_predictions,
          parity_env, parity_results, route, ethicsMode, satire, renders,
          spread_env, spread_run, wizard, panel, daily_env, daily_result>>

Range(f) == {f[x] : x \in DOMAIN f}
Min(a, b) == IF a <= b THEN a ELSE b
Max(a, b) == IF a >= b THEN a ELSE b

(***************************************************************************)
(* Bounds of the model.                                                    *)
(***************************************************************************)
\* Math.random() is drawn from RandSteps + 1 evenly spread values of [0,1).
RandSteps == 2
RandomDraws == {(i * 999) \div RandSteps : i \in 0..RandSteps}

Players == {"Skylar Diggins-Smith", "Test Player"}

(***************************************************************************)
(* JavaScript Date.                                                        *)
(* A game date is either Invalid Date or the ISO date string of day `ord`  *)
(* (1-based) of year `year`, which new Date(string) reads as UTC midnight. *)
(* Instants are counted in hours since 0000-01-01T00:00Z (proleptic        *)
(* Gregorian calendar, as ECMAScript prescribes).                          *)
(***************************************************************************)
IsLeap(y) == (y % 4 = 0 /\ y % 100 # 0) \/ y % 400 = 0
DaysInYear(y) == IF IsLeap(y) THEN 366 ELSE 365
\* days from 0000-01-01 to y-01-01, y >= 0
DaysBeforeYear(y) ==
    IF y = 0 THEN 0
    ELSE 365 * y + ((y - 1) \div 4) - ((y - 1) \div 100) + ((y - 1) \div 400) + 1

InvalidDate == [valid |-> FALSE]
IsoDate(y, n) == [valid |-> TRUE, year |-> y, ord |-> n]

\* new Date(gameDate): the time value, in hours
TimeValue(d) == 24 * (DaysBeforeYear(d.year) + d.ord - 1)
\* the local calendar day holding instant t
LocalDay(t, zone) == (t + zone) \div 24
\* Date.prototype.getDay, 0 = Sunday (0000-01-01 was a Saturday)
GetDay(d, zone) == (LocalDay(TimeValue(d), zone) + 6) % 7
\* Date.prototype.getFullYear
GetFullYear(d, zone) ==
    LET day == LocalDay(TimeValue(d), zone)
    IN  CHOOSE y \in (d.year - 1)..(d.year + 1) :
            DaysBeforeYear(y) <= day /\ day < DaysBeforeYear(y + 1)
\* new Date(year, 0, 0): local midnight of the day before 1 January; a year
\* argument in 0..99 means 1900 + year (ECMAScript MakeFullYear)
MakeFullYear(y) == IF 0 <= y /\ y <= 99 THEN 1900 + y ELSE y
DateOfYearStart(y, zone) == 24 * (DaysBeforeYear(MakeFullYear(y)) - 1) - zone
\* the JavaScript % operator: the result has the sign of the dividend
JsRem(a, n) == IF a >= 0 THEN a % n ELSE -((-a) % n)

(***************************************************************************)
(* MoodMeeter (src/src/modules/MoodMeeter.js)                              *)
(***************************************************************************)
\* new MoodMeeter(); weights in hundredths
MoodMeeter ==
  [moduleName |-> "MoodMeeter",
   version |-> "1.0.0",
   ethicalNotice |-> "Satirical analysis only. No real sentiment data collected.",
   moodIndicators |->
    [aggressive |-> [emoji |-> "angry", weight |-> 80, tooltip |-> "Aggressive tweets detected"],
     positive   |-> [emoji |-> "smile", weight |-> 120, tooltip |-> "Positive fan sentiment"],
     emotional  |-> [emoji |-> "cry", weight |-> 90, tooltip |-> "Emotional press releases"],
     neutral    |-> [emoji |-> "neutral", weight |-> 100, tooltip |-> "Baseline mood state"],
     zen        |-> [emoji |-> "zen", weight |-> 110, tooltip |-> "Peak focus achieved"]]]

\* 4 + Math.random() * 4, in thousandths
generateSatiricalMoodScore(r) == 4000 + 4 * r

\* factor of mockSentiments[Math.floor(Math.random() * 4)], in hundredths
mockSentiments == <<80, 130, 90, 100>>
analyzeSatiricalSocialMedia(r) == mockSentiments[((r * Len(mockSentiments)) \div 1000) + 1]

\* NaN === 0 is false: an Invalid Date is never a weekend
isWeekend(d, zone) == d.valid /\ GetDay(d, zone) \in {0, 6}
\* in hundredths
calculateGamePressure(d, zone) == IF isWeekend(d, zone) THEN 110 ELSE 95

\* One is 1.0 in the unit of baseline * socialMedia * gamePressure
MoodOne == 10000000
\* (mutant: the Math.min forgotten)
ClampNoCeiling(lo, hi, x) == Max(lo, x)
\* Math.min(hi, Math.max(lo, x)), and Math.max(lo, Math.min(hi, x)), lo <= hi
Clamp(lo, hi, x) == Min(hi, Max(lo, x))

categorizeMoodLevel(moodIndex) ==
    IF moodIndex >= 8 * MoodOne THEN "Peak Performance"
    ELSE IF 2 * moodIndex >= 13 * MoodOne THEN "Positive Energy"
    ELSE IF 2 * moodIndex >= 9 * MoodOne THEN "Balanced"
    ELSE IF 2 * moodIndex >= 5 * MoodOne THEN "Low Energy"
    ELSE "Needs Support"

selectMoodEmoji(this, moodIndex) ==
    IF moodIndex >= 8 * MoodOne THEN this.moodIndicators.zen
    ELSE IF 2 * moodIndex >= 13 * MoodOne THEN this.moodIndicators.positive
    ELSE IF 2 * moodIndex >= 9 * MoodOne THEN this.moodIndicators.neutral
    ELSE IF 2 * moodIndex >= 5 * MoodOne THEN this.moodIndicators.emotional
    ELSE this.moodIndicators.aggressive

\* Number(x.toFixed(digits)) for x = num/one: the nearest multiple of
\* 10^-digits, returned as a count of them (scale = 10^digits)
\* (`one` is even; the whole part is split off to keep the products small)
ToFixed(num, one, scale) ==
    (num \div one) * scale + (((num % one) * scale + (one \div 2)) \div one)

\* analyzeMood with its two Math.random() draws; moodIndex is in tenths
analyzeMood(this, name, d, zone, rBase, rSocial) ==
    LET baselineScore == generateSatiricalMoodScore(rBase)
        socialMediaFactor == analyzeSatiricalSocialMedia(rSocial)
        gamePressureFactor == calculateGamePressure(d, zone)
        moodIndex == Clamp(1 * MoodOne, 10 * MoodOne,
                           baselineScore * socialMediaFactor * gamePressureFactor)
        emoji == selectMoodEmoji(this, moodIndex)
    IN  [player |-> name,
         module |-> this.moduleName,
         moodIndex |-> ToFixed(moodIndex, MoodOne, 10),
         moodLevel |-> categorizeMoodLevel(moodIndex),
         emoji |-> emoji.emoji,
         tooltip |-> emoji.tooltip,
         factors |-> [baseline |-> baselineScore,
                      socialMedia |-> socialMediaFactor,
                      gamePressure |-> gamePressureFactor],
         ethicalNotice |-> this.ethicalNotice]

(***************************************************************************)
(* CrampCast (src/unnamed/part_011, lines 651-841)                         *)
(* Unit: CrampOne is 1.0 (chosen so that /1.2 and the tenths weights stay  *)
(* exact).                                                                 *)
(***************************************************************************)
CrampOne == 1200000

\* new CrampCast(); weights in tenths
CrampCast ==
  [moduleName |-> "CrampCast",
   version |-> "1.0.0",
   ethicalNotice |-> "Satirical health analysis only. Not for medical use.",
   crampIndicators |->
    [hydration |-> [emoji |-> "droplet", weight |-> 3, tooltip |-> "Hydration levels monitored"],
     activity  |-> [emoji |-> "runner", weight |-> 4, tooltip |-> "Recent physical activity impact"],
     stress    |-> [emoji |-> "anxious", weight |-> 2, tooltip |-> "Game stress factor"],
     recovery  |-> [emoji |-> "couch", weight |-> 1, tooltip |-> "Recovery time analysis"]],
   severityLevels |->
    <<[level |-> "Minimal", emoji |-> "check", tooltip |-> "All systems green"],
      [level |-> "Low", emoji |-> "yellow", tooltip |-> "Minor discomfort possible"],
      [level |-> "Moderate", emoji |-> "orange", tooltip |-> "Noticeable impact likely"],
      [level |-> "High", emoji |-> "red", tooltip |-> "Significant disruption risk"],
      [level |-> "Severe", emoji |-> "siren", tooltip |-> "Bench protocol advised"]>>]

assessSatiricalHydration(rBase, rCoffee, rSocial) ==
    LET baseHydration == 720000 + 480 * rBase
        coffeeIntake == IF rCoffee > 500 THEN -120000 ELSE 0
        socialMediaTime == 60 * rSocial
    IN  Clamp(0, CrampOne, baseHydration + coffeeIntake - socialMediaTime)

\* NaN < 5 is false: an Invalid Date takes the 1.2 branch
calculateActivityImpact(d, zone, rTraining) ==
    LET weekdayFactor == IF d.valid /\ GetDay(d, zone) < 5 THEN 8 ELSE 12
        trainingIntensity == 600000 + 600 * rTraining
    IN  (weekdayFactor * trainingIntensity) \div 10

assessGameStress(rPlayoffs, rRivalry) ==
    LET isPlayoffs == rPlayoffs > 800
        rivalryGame == rRivalry > 700
        stress == 600000 + (IF isPlayoffs THEN 360000 ELSE 0)
                         + (IF rivalryGame THEN 240000 ELSE 0)
    IN  Min(CrampOne, stress)

calculateRecoveryFactor(rSleep, rRest) ==
    LET sleepQuality == 720000 + 480 * rSleep
        restDays == (rRest * 3) \div 1000
    IN  ((sleepQuality + restDays * 120000) * 10) \div 12

\* (mutant: the weights and the cap at 1 forgotten)
calculateCrampProbabilityUnweighted(this, hydration, activity, stress, recovery) ==
    (CrampOne - hydration) + activity + stress + (CrampOne - recovery)
calculateCrampProbability(this, hydration, activity, stress, recovery) ==
    Min(CrampOne,
        ((CrampOne - hydration) * this.crampIndicators.hydration.weight
           + activity * this.crampIndicators.activity.weight
           + stress * this.crampIndicators.stress.weight
           + (CrampOne - recovery) * this.crampIndicators.recovery.weight) \div 10)

determineSeverityLevel(probability) ==
    IF 5 * probability <= 1 * CrampOne THEN 1
    ELSE IF 5 * probability <= 2 * CrampOne THEN 2
    ELSE IF 5 * probability <= 3 * CrampOne THEN 3
    ELSE IF 5 * probability <= 4 * CrampOne THEN 4
    ELSE 5

crampPredictions ==
    <<"Smooth sailing ahead! Hydration game strong.",
      "Minor tension possible. Keep stretching protocol active.",
      "Moderate discomfort detected. Bench heating pad on standby.",
      "High risk zone! Emergency snack deployment recommended.",
      "Code Red! Massage therapist and emotional support snacks required.">>
generateCrampPrediction(severity) == crampPredictions[severity]

\* what the four helpers can return, over the draws of Math.random()
HydrationScores ==
    {assessSatiricalHydration(a, b, c) : a \in RandomDraws, b \in RandomDraws, c \in RandomDraws}
ActivityImpacts(d, zone) == {calculateActivityImpact(d, zone, a) : a \in RandomDraws}
StressLevels == {assessGameStress(a, b) : a \in RandomDraws, b \in RandomDraws}
RecoveryFactors == {calculateRecoveryFactor(a, b) : a \in RandomDraws, b \in RandomDraws}

\* predictCramps, given what its four helpers returned; probability is in
\* tenths of a percent
predictCramps(this, name, hydrationScore, activityImpact, stressLevel, recoveryFactor) ==
    LET crampProbability ==
            calculateCrampProbability(this, hydrationScore, activityImpact, stressLevel,
                                      recoveryFactor)
        severity == determineSeverityLevel(crampProbability)
    IN  [player |-> name,
         module |-> this.moduleName,
         probability |-> ToFixed(crampProbability, CrampOne, 1000),
         severity |-> severity,
         severityInfo |-> this.severityLevels[severity],
         prediction |-> generateCrampPrediction(severity),
         factors |-> [hydration |-> hydrationScore,
                      activity |-> activityImpact,
                      stress |-> stressLevel,
                      recovery |-> recoveryFactor],
         indicators |-> this.crampIndicators,
         ethicalNotice |-> this.ethicalNotice]

(***************************************************************************)
(* MoodSwingMeter (src/unnamed/part_012)                                   *)
(* Units: a factor value is in 1/10000, a weight in hundredths, a          *)
(* volatility score in millionths (SwingOne is 1.0).                       *)
(***************************************************************************)
FactorOne == 10000
SwingOne == 1000000

\* new MoodSwingMeter()
MoodSwingMeter ==
  [moduleName |-> "MoodSwingMeter",
   version |-> "1.0.0",
   ethicalNotice |-> "Satirical mood analysis. No real hormonal data processed.",
   swingLevels |->
    [stable    |-> [emoji |-> "rainbow", level |-> "Stable",
                    tooltip |-> "Steady emotional state. Optimal for consistent gameplay.",
                    range |-> <<0, 300000>>],
     moderate  |-> [emoji |-> "wave", level |-> "Moderate",
                    tooltip |-> "Some emotional fluctuation. Enhanced creativity possible.",
                    range |-> <<300000, 700000>>],
     turbulent |-> [emoji |-> "tornado", level |-> "Turbulent",
                    tooltip |-> "High emotional volatility. Expect unpredictable brilliance.",
                    range |-> <<700000, 1000000>>]],
   factors |->
    [sleep     |-> [weight |-> 30, emoji |-> "sleeping", tooltip |-> "Sleep quality impact"],
     social    |-> [weight |-> 25, emoji |-> "phone", tooltip |-> "Social media exposure"],
     schedule  |-> [weight |-> 20, emoji |-> "calendar", tooltip |-> "Game schedule density"],
     nutrition |-> [weight |-> 15, emoji |-> "salad", tooltip |-> "Nutritional balance"],
     weather   |-> [weight |-> 10, emoji |-> "sun_cloud", tooltip |-> "Weather influence"]]]

\* array[Math.floor(Math.random() * array.length)]
RandomElementOf(array, r) == array[((r * Len(array)) \div 1000) + 1]

assessSleepPatterns(rBase, rSocial, rCaffeine, rAnxiety) ==
    LET baseQuality == 5000 + 5 * rBase
        socialMediaBefore == IF rSocial > 600 THEN -2000 ELSE 0
        caffeineIntake == IF rCaffeine > 400 THEN -1000 ELSE 0
        gameAnxiety == IF rAnxiety > 700 THEN -1500 ELSE 0
    IN  Clamp(0, FactorOne, baseQuality + socialMediaBefore + caffeineIntake + gameAnxiety)

triggers == <<-2000, 4000, 5000, 3000, -1000, 1000>>
analyzeSocialTriggers(r) == Clamp(0, FactorOne, 5000 + RandomElementOf(triggers, r))

calculateScheduleStress(d, zone, rBackToBack) ==
    LET isBackToBack == rBackToBack > 700
        weekend == d.valid /\ GetDay(d, zone) \in {0, 6}
        isTuesday == d.valid /\ GetDay(d, zone) = 2
        stress == 3000 + (IF isBackToBack THEN 4000 ELSE 0)
                       + (IF weekend THEN 1000 ELSE 0)
                       + (IF isTuesday THEN 2000 ELSE 0)
    IN  Min(FactorOne, stress)

nutritionFactors == <<2000, 7000, 6000, 8000, 4000, 1000>>
assessNutritionalState(r) == RandomElementOf(nutritionFactors, r)

weatherTypes == <<2000, 4000, 7000, 5000, 1000>>
calculateWeatherImpact(r) == RandomElementOf(weatherTypes, r)

\* (mutant: the weights and the cap at 1 forgotten)
calculateVolatilityScoreUnweighted(this, factorValues) ==
    100 * (factorValues.sleep + factorValues.social + factorValues.schedule
            + factorValues.nutrition + factorValues.weather)
calculateVolatilityScore(this, factorValues) ==
    Min(SwingOne,
        factorValues.sleep * this.factors.sleep.weight
          + factorValues.social * this.factors.social.weight
          + factorValues.schedule * this.factors.schedule.weight
          + factorValues.nutrition * this.factors.nutrition.weight
          + factorValues.weather * this.factors.weather.weight)

determineSwingLevel(this, score) ==
    IF score <= this.swingLevels.stable.range[2] THEN this.swingLevels.stable
    ELSE IF score <= this.swingLevels.moderate.range[2] THEN this.swingLevels.moderate
    ELSE this.swingLevels.turbulent

swingPredictions ==
    [Stable |-> <<"Emotional zen mode activated. Expect consistent performance.",
                  "Steady as she goes. Perfect for clutch situations.",
                  "Balanced energy detected. Optimal for team chemistry.">>,
     Moderate |-> <<"Some emotional waves expected. Enhanced creativity possible.",
                    "Moderate volatility detected. Potential for surprise plays.",
                    "Emotional flexibility active. Adaptable gameplay anticipated.">>,
     Turbulent |-> <<"High emotional intensity! Expect fireworks on the court.",
                     "Emotional rollercoaster engaged. Unpredictable brilliance incoming.",
                     "Volatility at maximum! Hold onto your statistical models.">>]
generateSwingPrediction(swingLevel, volatilityScore, r) ==
    RandomElementOf(swingPredictions[swingLevel.level], r)

SleepImpacts ==
    {assessSleepPatterns(a, b, c, e) :
        a \in RandomDraws, b \in RandomDraws, c \in RandomDraws, e \in RandomDraws}
SocialTriggers == {analyzeSocialTriggers(a) : a \in RandomDraws}
ScheduleStresses(d, zone) == {calculateScheduleStress(d, zone, a) : a \in RandomDraws}
NutritionBalances == {assessNutritionalState(a) : a \in RandomDraws}
WeatherInfluences == {calculateWeatherImpact(a) : a \in RandomDraws}

\* analyzeMoodSwings, given what its five helpers returned and the draw of
\* generateSwingPrediction; volatilityScore is in hundredths
analyzeMoodSwings(this, name, factorValues, rPrediction) ==
    LET volatilityScore == calculateVolatilityScore(this, factorValues)
        swingLevel == determineSwingLevel(this, volatilityScore)
    IN  [player |-> name,
         module |-> this.moduleName,
         volatilityScore |-> ToFixed(volatilityScore, SwingOne, 100),
         level |-> swingLevel.level,
         emoji |-> swingLevel.emoji,
         tooltip |-> swingLevel.tooltip,
         prediction |-> generateSwingPrediction(swingLevel, volatilityScore, rPrediction),
         factors |-> factorValues,
         factorWeights |-> this.factors,
         ethicalNotice |-> this.ethicalNotice]

(***************************************************************************)
(* Ovulytics (src/unnamed/part_011, lines 376-650)                         *)
(* A JavaScript number that may be NaN is NaN or Num(n).                   *)
(***************************************************************************)
NaN == [nan |-> TRUE]
Num(n) == [nan |-> FALSE, v |-> n]

\* new Ovulytics(); performance factors in hundredths
Ovulytics ==
  [moduleName |-> "Ovulytics",
   version |-> "1.0.0",
   ethicalNotice |-> "Satirical cycle modeling. No real biometric data collected.",
   cyclePhases |->
    [follicular |-> [emoji |-> "new_moon", phase |-> "Follicular",
                     tooltip |-> "Fresh energy phase. New beginnings detected.",
                     characteristics |-> <<"High energy", "Fresh legs", "Optimistic outlook">>,
                     performanceImpact |-> "Enhanced endurance and recovery"],
     ovulation  |-> [emoji |-> "full_moon", phase |-> "Ovulation",
                     tooltip |-> "Peak power phase. Maximum intensity available.",
                     characteristics |-> <<"Peak performance", "Enhanced focus", "Competitive drive">>,
                     performanceImpact |-> "Optimal strength and coordination"],
     luteal     |-> [emoji |-> "waning_crescent", phase |-> "Luteal",
                     tooltip |-> "Strategic phase. Thoughtful gameplay expected.",
                     characteristics |-> <<"Strategic thinking", "Steady performance", "Team focus">>,
                     performanceImpact |-> "Consistent play with strategic advantages"]],
   performanceFactors |->
    [follicular |-> [energy |-> 90, focus |-> 80, recovery |-> 95, teamwork |-> 85],
     ovulation  |-> [energy |-> 100, focus |-> 95, recovery |-> 90, teamwork |-> 90],
     luteal     |-> [energy |-> 85, focus |-> 100, recovery |-> 80, teamwork |-> 95]]]

\* Math.floor((date - new Date(date.getFullYear(), 0, 0)) / 86400000)
DayOfYear(d, zone) ==
    (TimeValue(d) - DateOfYearStart(GetFullYear(d, zone), zone)) \div 24

calculateSatiricalCycleDay(d, zone) ==
    IF ~d.valid THEN NaN
    ELSE Num(JsRem(DayOfYear(d, zone), 28) + 1)

\* every comparison with NaN is false
determineCyclePhase(cycleDay) ==
    IF ~cycleDay.nan /\ cycleDay.v <= 5 THEN "follicular"
    ELSE IF ~cycleDay.nan /\ cycleDay.v <= 13 THEN "follicular"
    ELSE IF ~cycleDay.nan /\ cycleDay.v <= 16 THEN "ovulation"
    ELSE "luteal"

\* 1000 * sin(2 pi k / 28), rounded, k = 0..27
SinTable ==
    <<0, 223, 434, 623, 782, 901, 975, 1000, 975, 901, 782, 623, 434, 223,
      0, -223, -434, -623, -782, -901, -975, -1000, -975, -901, -782, -623, -434, -223>>
\* energy in 1/10000; Math.max and Math.min of NaN are NaN
calculateEnergyLevel(this, phase, cycleDay, r) ==
    IF cycleDay.nan THEN NaN
    ELSE LET baseEnergy == 100 * this.performanceFactors[phase].energy
             cycleDayFactor == SinTable[(cycleDay.v % 28) + 1]
             randomVariation == r - 500
         IN  Num(Max(5000, Min(10000, baseEnergy + cycleDayFactor + randomVariation)))

performancePredictions ==
    [follicular |-> <<"Fresh legs detected! Expect high-energy plays and quick recovery.",
                      "New cycle energy activated. Enhanced endurance anticipated.",
                      "Follicular power engaged. Optimal for fast-break opportunities.">>,
     ovulation  |-> <<"Peak performance window detected! Watch for record-breaking plays.",
                      "Maximum power phase active. Clutch performance highly likely.",
                      "Ovulation excellence mode! Expect dominant court presence.">>,
     luteal     |-> <<"Strategic mindset activated. Expect thoughtful, calculated plays.",
                      "Consistent performance phase engaged. Steady excellence anticipated.",
                      "Team chemistry optimization detected. Leadership plays expected.">>]
generatePerformancePrediction(phase, factors, r) ==
    RandomElementOf(performancePredictions[phase], r)

assessGameplayImpact(phase, factors) ==
    LET energy == IF factors.energy >= 95 THEN <<"High-intensity plays expected">>
                  ELSE IF factors.energy <= 80
                       THEN <<"Energy conservation strategies recommended">>
                       ELSE <<>>
        focus == IF factors.focus >= 95 THEN <<"Enhanced decision-making anticipated">>
                 ELSE IF factors.focus <= 80 THEN <<"Focus support protocols advised">>
                      ELSE <<>>
        recovery == IF factors.recovery >= 90 THEN <<"Quick bounce-back ability">>
                    ELSE IF factors.recovery <= 80
                         THEN <<"Extended recovery periods possible">>
                         ELSE <<>>
        teamwork == IF factors.teamwork >= 90 THEN <<"Excellent team chemistry window">>
                    ELSE IF factors.teamwork <= 85 THEN <<"Individual focus mode active">>
                         ELSE <<>>
        impacts == energy \o focus \o recovery \o teamwork
    IN  IF Len(impacts) > 0 THEN impacts
        ELSE <<"Balanced performance across all metrics">>

\* trackOvulation with its two Math.random() draws
trackOvulation(this, name, d, zone, rEnergy, rPrediction) ==
    LET cycleDay == calculateSatiricalCycleDay(d, zone)
        phase == determineCyclePhase(cycleDay)
        phaseInfo == this.cyclePhases[phase]
        factors == this.performanceFactors[phase]
    IN  [player |-> name,
         module |-> this.moduleName,
         phase |-> phaseInfo.phase,
         emoji |-> phaseInfo.emoji,
         tooltip |-> phaseInfo.tooltip,
         cycleDay |-> cycleDay,
         energyLevel |-> calculateEnergyLevel(this, phase, cycleDay, rEnergy),
         characteristics |-> phaseInfo.characteristics,
         performanceImpact |-> phaseInfo.performanceImpact,
         performancePrediction |-> generatePerformancePrediction(phase, factors, rPrediction),
         gameplayImpact |-> assessGameplayImpact(phase, factors),
         performanceFactors |-> factors,
         ethicalNotice |-> this.ethicalNotice]

(***************************************************************************)
(* Calls of the four modules on their own (as the jest suite makes them).  *)
(* The returned objects are modelled without their `timestamp` field (the  *)
(* wall clock).                                                            *)
(***************************************************************************)
\* days of 2024 the week-day dependent modules are called with: a whole week
NumModuleDays == 7
ModuleDates == {InvalidDate} \cup {IsoDate(2024, n) : n \in 1..NumModuleDays}
\* years Ovulytics is called with, each with every day of the year; the two
\* ends of the two-digit range 0..99 are among them
Years == {50, 99, 100, 2023, 2024}
CalendarDates ==
    {InvalidDate} \cup UNION {{IsoDate(y, n) : n \in 1..DaysInYear(y)} : y \in Years}
\* host time zones, hours east of UTC
TimeZones == {-5, 9}

\* the instances q4trackr.js and the tests construct
Modules ==
    [moodMeeter |-> MoodMeeter,
     crampCast |-> CrampCast,
     moodSwingMeter |-> MoodSwingMeter,
     ovulytics |-> Ovulytics]

NoResult == [module |-> "none"]

ServerIdle ==
    /\ modules = Modules
    /\ serverDate = InvalidDate
    /\ reqs = <<>>
EnsembleIdle == ensInput = <<>> /\ ensResult = <<>>
FeaturesIdle == df = <<>> /\ dfLagged = <<>> /\ dfOut = <<>>
Unset == [status |-> "none"]
PhaseIdle == athlete_data = Unset /\ final_predictions = Unset
ParityIdle == parity_env = Unset /\ parity_results = Unset
UiIdle == route = "" /\ ethicsMode = FALSE /\ satire = FALSE /\ renders = <<>>
SpreadsIdle == spread_env = Unset /\ spread_run = Unset
WizardIdle == wizard = Unset
PanelIdle == panel = Unset
DailyIdle == daily_env = Unset /\ daily_result = Unset
LateIdle == SpreadsIdle /\ WizardIdle /\ PanelIdle /\ DailyIdle
RestIdle == PhaseIdle /\ ParityIdle /\ UiIdle /\ LateIdle

InitCall(dates) ==
    /\ playerName \in Players
    /\ gameDate \in dates
    /\ tz \in TimeZones
    /\ call = "none"
    /\ result = NoResult
    /\ ServerIdle
    /\ EnsembleIdle
    /\ FeaturesIdle
    /\ RestIdle

Return(method, object) ==
    /\ call' = method
    /\ result' = object
    /\ UNCHANGED <<playerName, gameDate, tz, serverVars, ensVars, featVars, restVars>>

AnalyzeMood ==
    /\ call = "none"
    /\ \E rBase \in RandomDraws, rSocial \in RandomDraws :
        Return("analyzeMood",
               analyzeMood(modules.moodMeeter, playerName, gameDate, tz, rBase, rSocial))

PredictCramps ==
    /\ call = "none"
    /\ \E hydrationScore \in HydrationScores,
       activityImpact \in ActivityImpacts(gameDate, tz),
       stressLevel \in StressLevels,
       recoveryFactor \in RecoveryFactors :
        Return("predictCramps",
               predictCramps(modules.crampCast, playerName, hydrationScore, activityImpact,
                             stressLevel, recoveryFactor))

AnalyzeMoodSwings ==
    /\ call = "none"
    /\ \E sleepImpact \in SleepImpacts,
       socialTriggers \in SocialTriggers,
       scheduleStress \in ScheduleStresses(gameDate, tz),
       nutritionBalance \in NutritionBalances,
       weatherInfluence \in WeatherInfluences,
       rPrediction \in RandomDraws :
        Return("analyzeMoodSwings",
               analyzeMoodSwings(modules.moodSwingMeter, playerName,
                                 [sleep |-> sleepImpact,
                                  social |-> socialTriggers,
                                  schedule |-> scheduleStress,
                                  nutrition |-> nutritionBalance,
                                  weather |-> weatherInfluence],
                                 rPrediction))

TrackOvulation ==
    /\ call = "none"
    /\ \E rEnergy \in RandomDraws, rPrediction \in RandomDraws :
        Return("trackOvulation",
               trackOvulation(modules.ovulytics, playerName, gameDate, tz, rEnergy,
                              rPrediction))

InitModules == InitCall(ModuleDates)
NextModules == AnalyzeMood \/ PredictCramps \/ AnalyzeMoodSwings
SpecModules == InitModules /\ [][NextModules]_vars

InitOvulytics == InitCall(CalendarDates)
NextOvulytics == TrackOvulation
SpecOvulytics == InitOvulytics /\ [][NextOvulytics]_vars

(***************************************************************************)
(* C1  MoodMeeter.analyzeMood returns a moodIndex with                     *)
(* 1 <= moodIndex <= 10 for every player name and game date, whatever the  *)
(* baseline score, the social-media factor and the game-pressure factor.   *)
(* (moodIndex is in tenths.)                                               *)
(***************************************************************************)
C1_MoodIndexInRange ==
    call = "analyzeMood" => (10 <= result.moodIndex /\ result.moodIndex <= 100)
\* the clamp is needed at the top: some product exceeds 10
C1_Witness ==
    /\ call = "analyzeMood"
    /\ result.factors.baseline * result.factors.socialMedia * result.factors.gamePressure
         > 10 * MoodOne
    /\ result.moodIndex = 100

(***************************************************************************)
(* C2  CrampCast.predictCramps returns a probability between 0 and 100     *)
(* inclusive (here in tenths of a percent), an integer severity between 1  *)
(* and 5, and as severityInfo the severity-level record defined for that   *)
(* severity, whatever the hydration, activity, stress and recovery         *)
(* factors.                                                                *)
(***************************************************************************)
C2_CrampRanges ==
    call = "predictCramps" =>
        /\ 0 <= result.probability /\ result.probability <= 1000
        /\ result.severity \in 1..5
        /\ result.severityInfo = CrampCast.severityLevels[result.severity]
C2_Witness ==
    /\ call = "predictCramps"
    /\ result.severity = 5
    /\ result.severityInfo.level = "Severe"
    /\ ~gameDate.valid

SwingLevelRecords ==
    {MoodSwingMeter.swingLevels.stable, MoodSwingMeter.swingLevels.moderate,
     MoodSwingMeter.swingLevels.turbulent}

(***************************************************************************)
(* C3  MoodSwingMeter.analyzeMoodSwings returns a level among Stable,      *)
(* Moderate, Turbulent, a volatilityScore between 0 and 1 (here in         *)
(* hundredths), and level, emoji and tooltip of one and the same           *)
(* swing-level record: Stable with the rainbow, Moderate with the wave,    *)
(* Turbulent with the tornado.                                             *)
(***************************************************************************)
C3_SwingLevelConsistent ==
    call = "analyzeMoodSwings" =>
        /\ result.level \in {"Stable", "Moderate", "Turbulent"}
        /\ 0 <= result.volatilityScore /\ result.volatilityScore <= 100
        /\ \E rec \in SwingLevelRecords :
              /\ rec.level = result.level
              /\ rec.emoji = result.emoji
              /\ rec.tooltip = result.tooltip
        /\ (result.level = "Stable" => result.emoji = "rainbow")
        /\ (result.level = "Moderate" => result.emoji = "wave")
        /\ (result.level = "Turbulent" => result.emoji = "tornado")
C3_Witness ==
    /\ call = "analyzeMoodSwings"
    /\ result.level = "Turbulent"
    /\ result.emoji = "tornado"

PhaseOfDay(day) ==
    IF day <= 13 THEN Ovulytics.cyclePhases.follicular
    ELSE IF day <= 16 THEN Ovulytics.cyclePhases.ovulation
    ELSE Ovulytics.cyclePhases.luteal

(***************************************************************************)
(* C4  For every player name and every valid game date,                    *)
(* Ovulytics.trackOvulation returns a cycleDay between 1 and 28 inclusive  *)
(* and a phase among Follicular, Ovulation, Luteal that cycleDay alone     *)
(* determines (days 1-13 Follicular, 14-16 Ovulation, 17-28 Luteal), with  *)
(* the emoji of that same phase.                                           *)
(***************************************************************************)
C4_CycleDayAndPhase ==
    (call = "trackOvulation" /\ gameDate.valid) =>
        /\ ~result.cycleDay.nan
        /\ result.cycleDay.v \in 1..28
        /\ result.phase = PhaseOfDay(result.cycleDay.v).phase
        /\ result.emoji = PhaseOfDay(result.cycleDay.v).emoji
\* the same, for the game dates whose getFullYear() is 100 or more
C4_FromYear100 ==
    (call = "trackOvulation" /\ gameDate.valid /\ GetFullYear(gameDate, tz) >= 100) =>
        /\ ~result.cycleDay.nan
        /\ result.cycleDay.v \in 1..28
        /\ result.phase = PhaseOfDay(result.cycleDay.v).phase
        /\ result.emoji = PhaseOfDay(result.cycleDay.v).emoji

(***************************************************************************)
(* The express server (src/src/q4trackr.js).                               *)
(*                                                                         *)
(* reqs[i] is the i-th GET /prediction/:playerName: `param` is             *)
(* req.params.playerName, `pc` the await the handler is suspended at, and  *)
(* the locals of that invocation.  Of the objects the modules return the   *)
(* locals keep the fields the handler reads (moodIndex, severity, level,   *)
(* phase).  A handler runs from one await to the next without              *)
(* interruption; between two awaits any other handler may run.             *)
(***************************************************************************)
MaxRequests == 2
Requests == 1..MaxRequests
\* the values Math.random() takes in the server runs
ServerDraws == {0, 500, 999}
\* the date the server is started on (2024-01-06 or 2024-01-14) and the host's
\* time zone
ServerDates == {IsoDate(2024, 6), IsoDate(2024, 14)}
ServerZones == {9}

samplePlayer == "Skylar Diggins-Smith"

Undefined == "undefined"
\* array[index] of JavaScript, index from 0
ArrayGet(array, index) ==
    IF 0 <= index /\ index < Len(array) THEN array[index + 1] ELSE Undefined

q4Predictions ==
    <<"Clutch performance likely. Snacks advised.",
      "Expect stellar defense. Hydration recommended.",
      "Q4 dominance predicted. Emotional support snacks ready.",
      "Peak performance window. Refs beware of intensity.",
      "Balanced gameplay expected. Zen mode activated.",
      "Energy dip possible. Bench support advised.",
      "Mood volatility detected. Expect entertaining gameplay.",
      "Optimal performance phase. Watch for record-breaking plays.">>

\* moodIndex is in tenths, so combinedScore is too
generateQ4Prediction(moodData, crampData, moodSwingData, ovulationData) ==
    LET combinedScore ==
            moodData.moodIndex + 10 * crampData.severity
              + 10 * (IF moodSwingData.level = "Turbulent" THEN 3
                      ELSE IF moodSwingData.level = "Moderate" THEN 2 ELSE 1)
        index == JsRem(combinedScore \div 10, Len(q4Predictions))
    IN  ArrayGet(q4Predictions, index)

\* (mutant: the metrics of two modules exchanged)
PredictionSwapped(name, moodData, crampData, moodSwingData, ovulationData) ==
    [player |-> name,
     mood_index |-> crampData.severity,
     cramp_severity |-> moodData.moodIndex,
     mood_swing |-> moodSwingData.level,
     ovulation_phase |-> ovulationData.phase,
     q4_prediction |-> generateQ4Prediction(moodData, crampData, moodSwingData, ovulationData),
     timestamp |-> "new Date().toISOString()",
     ethical_disclaimer |->
         "Satirical analysis using fabricated metrics. No real personal data collected."]
\* (mutant: the sample player instead of the player of the request)
PredictionForSamplePlayer(name, moodData, crampData, moodSwingData, ovulationData) ==
    [player |-> samplePlayer,
     mood_index |-> moodData.moodIndex,
     cramp_severity |-> crampData.severity,
     mood_swing |-> moodSwingData.level,
     ovulation_phase |-> ovulationData.phase,
     q4_prediction |-> generateQ4Prediction(moodData, crampData, moodSwingData, ovulationData),
     timestamp |-> "new Date().toISOString()",
     ethical_disclaimer |->
         "Satirical analysis using fabricated metrics. No real personal data collected."]
\* const prediction = {...}
Prediction(name, moodData, crampData, moodSwingData, ovulationData) ==
    [player |-> name,
     mood_index |-> moodData.moodIndex,
     cramp_severity |-> crampData.severity,
     mood_swing |-> moodSwingData.level,
     ovulation_phase |-> ovulationData.phase,
     q4_prediction |-> generateQ4Prediction(moodData, crampData, moodSwingData, ovulationData),
     timestamp |-> "new Date().toISOString()",
     ethical_disclaimer |->
         "Satirical analysis using fabricated metrics. No real personal data collected."]

\* res.json(prediction): JSON.stringify leaves out a property whose value is
\* undefined
ResJson(prediction) ==
    [status |-> "200",
     body |-> IF prediction.q4_prediction = Undefined
              THEN [f \in DOMAIN prediction \ {"q4_prediction"} |-> prediction[f]]
              ELSE prediction]

NoData == [module |-> "none"]
NoResponse == [status |-> "none"]
\* the player the i-th request asks for: the clients alternate between two
RequestedPlayer(i) == IF i % 2 = 1 THEN "Skylar Diggins-Smith" ELSE "Test Player"
\* a request not yet received, with the :playerName of its URL
IdleRequest(i) ==
    [pc |-> "idle", param |-> RequestedPlayer(i), playerName |-> "", moodData |-> NoData,
     crampData |-> NoData, moodSwingData |-> NoData, ovulationData |-> NoData,
     response |-> NoResponse]

\* what the handler keeps of a returned object
MoodFields(object) == [module |-> object.module, moodIndex |-> object.moodIndex]
CrampFields(object) == [module |-> object.module, severity |-> object.severity]
SwingFields(object) == [module |-> object.module, level |-> object.level]
OvulationFields(object) == [module |-> object.module, phase |-> object.phase]

\* What each module method can return to the server, by instance, player,
\* date and time zone: within one call every Math.random() gives the same
\* draw r of ServerDraws.
ServerMoodData ==
    [this \in {MoodMeeter}, name \in Players, d \in ServerDates, zone \in ServerZones |->
        {MoodFields(analyzeMood(this, name, d, zone, r, r)) : r \in ServerDraws}]
ServerCrampData ==
    [this \in {CrampCast}, name \in Players, d \in ServerDates, zone \in ServerZones |->
        {CrampFields(predictCramps(this, name,
                                   assessSatiricalHydration(r, r, r),
                                   calculateActivityImpact(d, zone, r),
                                   assessGameStress(r, r),
                                   calculateRecoveryFactor(r, r))) : r \in ServerDraws}]
ServerSwingData ==
    [this \in {MoodSwingMeter}, name \in Players, d \in ServerDates, zone \in ServerZones |->
        {SwingFields(analyzeMoodSwings(this, name,
                                       [sleep |-> assessSleepPatterns(r, r, r, r),
                                        social |-> analyzeSocialTriggers(r),
                                        schedule |-> calculateScheduleStress(d, zone, r),
                                        nutrition |-> assessNutritionalState(r),
                                        weather |-> calculateWeatherImpact(r)],
                                       r)) : r \in ServerDraws}]
ServerOvulationData ==
    [this \in {Ovulytics}, name \in Players, d \in ServerDates, zone \in ServerZones |->
        {OvulationFields(trackOvulation(this, name, d, zone, r, r)) : r \in ServerDraws}]

InitServer ==
    /\ modules = Modules
    /\ serverDate \in ServerDates
    /\ tz \in ServerZones
    /\ reqs = [i \in Requests |-> IdleRequest(i)]
    /\ playerName = "" /\ gameDate = InvalidDate /\ call = "none" /\ result = NoResult
    /\ EnsembleIdle
    /\ FeaturesIdle
    /\ RestIdle

ServerStep(i, next) ==
    /\ reqs' = [reqs EXCEPT ![i] = next]
    /\ UNCHANGED <<modules, serverDate, moduleVars, ensVars, featVars, restVars>>

\* the request arrives; the handler runs up to `await moodMeeter.analyzeMood`
\* (the route matches a non-empty name only, so `|| samplePlayer` never acts)
Arrive(i) ==
    /\ reqs[i].pc = "idle"
    /\ LET name == IF reqs[i].param # "" THEN reqs[i].param ELSE samplePlayer
       IN  \E data \in ServerMoodData[modules.moodMeeter, name, serverDate, tz] :
                ServerStep(i, [reqs[i] EXCEPT
                    !.pc = "await analyzeMood",
                    !.playerName = name,
                    !.moodData = data])

\* moodData is assigned; the handler runs up to `await crampCast.predictCramps`
AfterAnalyzeMood(i) ==
    /\ reqs[i].pc = "await analyzeMood"
    /\ \E data \in ServerCrampData[modules.crampCast, reqs[i].playerName, serverDate, tz] :
        ServerStep(i, [reqs[i] EXCEPT
            !.pc = "await predictCramps",
            !.crampData = data])

AfterPredictCramps(i) ==
    /\ reqs[i].pc = "await predictCramps"
    /\ \E data \in ServerSwingData[modules.moodSwingMeter, reqs[i].playerName,
                                   serverDate, tz] :
        ServerStep(i, [reqs[i] EXCEPT
            !.pc = "await analyzeMoodSwings",
            !.moodSwingData = data])

AfterAnalyzeMoodSwings(i) ==
    /\ reqs[i].pc = "await analyzeMoodSwings"
    /\ \E data \in ServerOvulationData[modules.ovulytics, reqs[i].playerName,
                                       serverDate, tz] :
        ServerStep(i, [reqs[i] EXCEPT
            !.pc = "await trackOvulation",
            !.ovulationData = data])

\* ovulationData is assigned; the prediction is built and sent
Respond(i) ==
    /\ reqs[i].pc = "await trackOvulation"
    /\ ServerStep(i, [reqs[i] EXCEPT
            !.pc = "done",
            !.response = ResJson(Prediction(reqs[i].playerName, reqs[i].moodData,
                                            reqs[i].crampData, reqs[i].moodSwingData,
                                            reqs[i].ovulationData))])

Next ==
    \E i \in Requests :
        \/ Arrive(i)
        \/ AfterAnalyzeMood(i)
        \/ AfterPredictCramps(i)
        \/ AfterAnalyzeMoodSwings(i)
        \/ Respond(i)
Init == InitServer
Spec == Init /\ [][Next]_vars

(***************************************************************************)
(* C5  A successful GET /prediction/:playerName response is a JSON object  *)
(* with the fields player, mood_index, cramp_severity, mood_swing,         *)
(* ovulation_phase, q4_prediction, timestamp and ethical_disclaimer; its   *)
(* player is the playerName of the request, and the four metrics are the   *)
(* moodIndex, severity, level and phase the four modules returned for      *)
(* that request.                                                           *)
(***************************************************************************)
ResponseFields ==
    {"player", "mood_index", "cramp_severity", "mood_swing", "ovulation_phase",
     "q4_prediction", "timestamp", "ethical_disclaimer"}
C5_ResponseFormat ==
    \A i \in Requests :
        reqs[i].response.status = "200" =>
            /\ DOMAIN reqs[i].response.body = ResponseFields
            /\ reqs[i].response.body.player = reqs[i].param
            /\ reqs[i].response.body.mood_index = reqs[i].moodData.moodIndex
            /\ reqs[i].response.body.cramp_severity = reqs[i].crampData.severity
            /\ reqs[i].response.body.mood_swing = reqs[i].moodSwingData.level
            /\ reqs[i].response.body.ovulation_phase = reqs[i].ovulationData.phase
C5_Witness ==
    \E i \in Requests :
        /\ reqs[i].pc = "done"
        /\ reqs[i].response.status = "200"
        /\ reqs[i].response.body.player = "Test Player"
        /\ reqs[i].response.body.q4_prediction \in Range(q4Predictions)

(***************************************************************************)
(* C6  Request handling shares no mutable state: under any interleaving of *)
(* concurrent requests at the awaits, the shared module instances are      *)
(* never modified, and the player and the metrics of each response are     *)
(* those of its own request, whatever another request in flight holds.     *)
(***************************************************************************)
C6_NoSharedMutableState ==
    /\ modules = Modules
    /\ \A i \in Requests, j \in Requests :
          (i # j /\ reqs[i].pc = "done" /\ reqs[j].pc # "idle") =>
              LET own == reqs[i]
                  body == reqs[i].response.body
              IN  /\ body.player = own.param
                  /\ <<body.mood_index, body.cramp_severity, body.mood_swing,
                       body.ovulation_phase>>
                       = <<own.moodData.moodIndex, own.crampData.severity,
                           own.moodSwingData.level, own.ovulationData.phase>>
\* a response sent while another request, for another player and with other
\* mood data, is suspended between two module calls
C6_Witness ==
    \E i \in Requests, j \in Requests :
        /\ reqs[i].pc = "done"
        /\ reqs[j].pc = "await predictCramps"
        /\ reqs[i].param # reqs[j].param
        /\ reqs[i].moodData # reqs[j].moodData
        /\ reqs[i].crampData # reqs[j].crampData
        /\ reqs[i].response.body.player = reqs[i].param

(***************************************************************************)
(* predict_ensemble (src/unnamed/part_007, lines 97-126).                  *)
(* What glmnet and randomForest predict is an input: a probability for     *)
(* each row, here a multiple of 1/ProbSteps.  A number computed from them  *)
(* is a fraction [num, den] with den > 0.                                  *)
(***************************************************************************)
ProbSteps == 4
MaxEnsembleRows == 2

Frac(n, d) == [num |-> n, den |-> d]
FracLe(a, b) == a.num * b.den <= b.num * a.den
FracEq(a, b) == a.num * b.den = b.num * a.den

\* (mutant: the lasso probability alone)
EnsembleLassoOnly(lasso_pred, rf_pred) == Frac(2 * lasso_pred, 2 * ProbSteps)
\* (lasso_pred + rf_pred) / 2
EnsemblePred(lasso_pred, rf_pred) == Frac(lasso_pred + rf_pred, 2 * ProbSteps)

\* ifelse(ensemble_pred >= 0.5, "High Impact", "Low Impact")
ImpactLabel(ensemble_pred) ==
    IF FracLe(Frac(1, 2), ensemble_pred) THEN "High Impact" ELSE "Low Impact"

\* newdata with, per row, the two model predictions
predict_ensemble(newdata) ==
    [i \in DOMAIN newdata |->
        LET lasso_pred == newdata[i].lasso_pred
            rf_pred == newdata[i].rf_pred
            ensemble_pred == EnsemblePred(lasso_pred, rf_pred)
        IN  [player_id |-> newdata[i].player_id,
             game_date |-> newdata[i].game_date,
             ensemble_probability |-> ensemble_pred,
             lasso_probability |-> Frac(lasso_pred, ProbSteps),
             rf_probability |-> Frac(rf_pred, ProbSteps),
             prediction |-> ImpactLabel(ensemble_pred)]]

EnsembleRows(i) ==
    {[player_id |-> i, game_date |-> i, lasso_pred |-> l, rf_pred |-> r] :
        l \in 0..ProbSteps, r \in 0..ProbSteps}
EnsembleInputs(n) ==
    {t \in [1..n -> UNION {EnsembleRows(i) : i \in 1..n}] :
        \A i \in 1..n : t[i] \in EnsembleRows(i)}

ModulesIdle ==
    /\ playerName = "" /\ gameDate = InvalidDate /\ tz = 0 /\ call = "none"
    /\ result = NoResult

InitEnsemble ==
    /\ \E n \in 1..MaxEnsembleRows : ensInput \in EnsembleInputs(n)
    /\ ensResult = <<>>
    /\ ModulesIdle
    /\ ServerIdle
    /\ FeaturesIdle
    /\ RestIdle
PredictEnsemble ==
    /\ ensResult = <<>>
    /\ ensResult' = predict_ensemble(ensInput)
    /\ UNCHANGED <<ensInput, moduleVars, serverVars, featVars, restVars>>
NextEnsemble == PredictEnsemble
SpecEnsemble == InitEnsemble /\ [][NextEnsemble]_vars

(***************************************************************************)
(* C7  predict_ensemble returns, for every row, an ensemble_probability    *)
(* equal to the unweighted average (lasso_probability + rf_probability)/2, *)
(* which therefore lies between the two, and the prediction is "High       *)
(* Impact" exactly when ensemble_probability >= 0.5, "Low Impact"          *)
(* otherwise.                                                              *)
(***************************************************************************)
C7_EnsembleAverage ==
    \A i \in DOMAIN ensResult :
        LET row == ensResult[i]
            e == row.ensemble_probability
            l == row.lasso_probability
            r == row.rf_probability
        IN  /\ row.player_id = ensInput[i].player_id
            /\ 2 * e.num * l.den * r.den = e.den * (l.num * r.den + r.num * l.den)
            /\ (FracLe(l, e) /\ FracLe(e, r)) \/ (FracLe(r, e) /\ FracLe(e, l))
            /\ (row.prediction = "High Impact") <=> (2 * e.num >= e.den)
            /\ (row.prediction = "Low Impact") <=> (2 * e.num < e.den)
\* a row the models disagree on, whose average is exactly 0.5
C7_Witness ==
    \E i \in DOMAIN ensResult :
        /\ ensResult[i].lasso_probability.num = 0
        /\ ensResult[i].rf_probability.num = ProbSteps
        /\ ensResult[i].prediction = "High Impact"

(***************************************************************************)
(* engineer_features (src/unnamed/part_009, lines 93-112; the same steps   *)
(* are engineer_cycle_aware_features in R/cycle_aware_wnba_pipeline.R).    *)
(* A data frame is a sequence of rows.  Dates are day numbers.  A cell of  *)
(* a numeric column is NA, NaN or a fraction num/den with den > 0.  bbt    *)
(* stands for the raw columns that only pass through the two lapply calls  *)
(* (bbt, hr, sleep_quality, ..., progesterone): each column is handled on  *)
(* its own by the same function.                                           *)
(***************************************************************************)
MaxRows == 3

NA == [kind |-> "NA"]
NaNValue == [kind |-> "NaN"]
Val(n) == [kind |-> "num", num |-> n, den |-> 1]
SetMax(S) == CHOOSE x \in S : \A y \in S : y <= x
SetMin(S) == CHOOSE x \in S : \A y \in S : x <= y

\* is.na(x): TRUE for NA and for NaN
is_na(x) == x.kind # "num"

\* (mutant: the remainder takes the sign of the dividend, as in C)
RModTruncated(x, y) == JsRem(x, y)
\* x %% y in R: the result takes the sign of the divisor y; y # 0
RMod(x, y) == IF y > 0 THEN x % y ELSE 0 - ((0 - x) % (0 - y))

\* as.numeric(difftime(game_date, cycle_start, units = "days")) %% menstruation_duration
cycle_day(row) ==
    IF row.menstruation_duration = 0
    THEN NaNValue
    ELSE Val(RMod(row.game_date - row.cycle_start, row.menstruation_duration))

\* (mutant: the ovulation day is wrapped into the cycle like the cycle day)
ovulation_flagWrapped(row) ==
    LET cd == cycle_day(row)
    IN  IF is_na(cd) THEN NA
        ELSE IF cd.num = RMod(row.ovulation_day, row.menstruation_duration)
        THEN Val(1) ELSE Val(0)
\* ifelse(cycle_day == ovulation_day, 1, 0)
ovulation_flag(row) ==
    LET cd == cycle_day(row)
    IN  IF is_na(cd) THEN NA ELSE IF cd.num = row.ovulation_day THEN Val(1) ELSE Val(0)

\* rowSums(select(., cramps, mood, discharge), na.rm = TRUE)
symptom_score(row) ==
    Val((IF is_na(row.cramps) THEN 0 ELSE row.cramps.num)
        + (IF is_na(row.mood) THEN 0 ELSE row.mood.num)
        + (IF is_na(row.discharge) THEN 0 ELSE row.discharge.num))

\* mutate(cycle_day = ..., ovulation_flag = ..., symptom_score = ...)
mutate(data) ==
    [i \in DOMAIN data |->
        [player_id |-> data[i].player_id,
         game_date |-> data[i].game_date,
         cycle_start |-> data[i].cycle_start,
         menstruation_duration |-> data[i].menstruation_duration,
         ovulation_day |-> data[i].ovulation_day,
         cramps |-> data[i].cramps,
         mood |-> data[i].mood,
         discharge |-> data[i].discharge,
         hrv |-> data[i].hrv,
         bbt |-> data[i].bbt,
         cycle_day |-> cycle_day(data[i]),
         ovulation_flag |-> ovulation_flag(data[i]),
         symptom_score |-> symptom_score(data[i]),
         lagged_hrv |-> NA]]

\* the order of arrange(player_id, game_date)
RowLe(a, b) ==
    \/ a.player_id < b.player_id
    \/ a.player_id = b.player_id /\ a.game_date <= b.game_date

RECURSIVE arrangeRows(_)
arrangeRows(t) ==
    IF t = <<>>
    THEN <<>>
    ELSE LET rest == arrangeRows(Tail(t))
             k == Cardinality({i \in DOMAIN rest : ~RowLe(Head(t), rest[i])})
         IN  SubSeq(rest, 1, k) \o <<Head(t)>> \o SubSeq(rest, k + 1, Len(rest))

\* (mutant: the rows stay in input order)
arrangeNothing(t) == t
\* arrange(player_id, game_date): a stable sort
arrange(t) == arrangeRows(t)

\* group_by(player_id) %>% mutate(lagged_hrv = lag(hrv, 1)) %>% ungroup()
lag_hrv(t) ==
    [i \in DOMAIN t |->
        LET before == {j \in DOMAIN t : j < i /\ t[j].player_id = t[i].player_id}
        IN  [t[i] EXCEPT !.lagged_hrv =
                IF before = {} THEN NA ELSE t[SetMax(before)].hrv]]

\* the columns of norm_cols that the model carries
norm_cols == <<"bbt", "hrv", "symptom_score", "lagged_hrv">>

Column(t, name) == [i \in DOMAIN t |-> t[i][name]]
NonMissing(x) == {i \in DOMAIN x : ~is_na(x[i])}

RECURSIVE SumNum(_, _)
SumNum(x, rows) ==
    IF rows = {}
    THEN 0
    ELSE LET i == CHOOSE j \in rows : TRUE
         IN  x[i].num + SumNum(x, rows \ {i})

\* scales::rescale(x): from = range(x, na.rm = TRUE, finite = TRUE), to = c(0, 1);
\* a zero range gives mean(to) = 0.5; NA stays NA; na.rm goes into "..."
rescale(x) ==
    LET present == NonMissing(x)
        values == {x[i].num : i \in present}
    IN  [i \in DOMAIN x |->
            IF is_na(x[i]) \/ present = {}
            THEN NA
            ELSE IF SetMin(values) = SetMax(values)
                 THEN [kind |-> "num", num |-> 1, den |-> 2]
                 ELSE [kind |-> "num", num |-> x[i].num - SetMin(values),
                       den |-> SetMax(values) - SetMin(values)]]

\* (mutant: the sum of the present values divided by the number of rows)
ColumnMeanOverAllRows(x) ==
    LET present == NonMissing(x)
    IN  IF present = {}
        THEN NaNValue
        ELSE [kind |-> "num", num |-> SumNum(x, present),
              den |-> Len(x) * x[CHOOSE i \in present : TRUE].den]
\* mean(x, na.rm = TRUE) of a rescaled column: its present cells share one den
ColumnMean(x) ==
    LET present == NonMissing(x)
    IN  IF present = {}
        THEN NaNValue
        ELSE [kind |-> "num", num |-> SumNum(x, present),
              den |-> Cardinality(present) * x[CHOOSE i \in present : TRUE].den]

\* ifelse(is.na(x), mean(x, na.rm = TRUE), x)
impute(x) == [i \in DOMAIN x |-> IF is_na(x[i]) THEN ColumnMean(x) ELSE x[i]]

\* df[norm_cols] <- lapply(df[norm_cols], ...), twice
normalize(t) ==
    LET columns == [c \in Range(norm_cols) |-> impute(rescale(Column(t, c)))]
    IN  [i \in DOMAIN t |->
            [t[i] EXCEPT !.bbt = columns["bbt"][i],
                         !.hrv = columns["hrv"][i],
                         !.symptom_score = columns["symptom_score"][i],
                         !.lagged_hrv = columns["lagged_hrv"][i]]]

\* the data frame before the two lapply calls, and the value returned
engineer_features_lagged(data) == lag_hrv(arrange(mutate(data)))
engineer_features(data) == normalize(engineer_features_lagged(data))

(***************************************************************************)
(* Input tables: at most MaxRows rows, one row per player and game, in any *)
(* row order.  Three families vary the columns of one step each and leave  *)
(* the others at the values of BaseRow; menstruation_duration is a         *)
(* positive number of days and the dates are present.                      *)
(***************************************************************************)
PlayerIds == {1, 2}
GameDays == {11, 12, 14}
HrvValues == {NA, Val(40), Val(70)}
CycleStarts == {5, 12, 20}
Durations == {1, 3, 5}
BbtValues == {NA, Val(1), Val(4)}
CrampValues == {NA, Val(0), Val(3)}

BaseRow(p, d) ==
    [player_id |-> p, game_date |-> d, cycle_start |-> 10,
     menstruation_duration |-> 5, ovulation_day |-> 2,
     cramps |-> Val(1), mood |-> Val(2), discharge |-> Val(0),
     hrv |-> Val(50), bbt |-> Val(3)]

LagRows ==
    {[BaseRow(p, d) EXCEPT !.hrv = h] :
        p \in PlayerIds, d \in GameDays, h \in HrvValues}
CycleRows ==
    {[BaseRow(1, d) EXCEPT !.cycle_start = s, !.menstruation_duration = m] :
        d \in GameDays, s \in CycleStarts, m \in Durations}
NormRows ==
    {[BaseRow(1, d) EXCEPT !.bbt = b, !.cramps = c] :
        d \in GameDays, b \in BbtValues, c \in CrampValues}

OvulationDays == {0, 2, 5, 14}
OvulationRows ==
    {[BaseRow(1, d) EXCEPT !.menstruation_duration = m, !.ovulation_day = o] :
        d \in GameDays, m \in {3, 5}, o \in OvulationDays}

Tables(rows) ==
    UNION {{t \in [1..n -> rows] :
                \A i, j \in 1..n :
                    (t[i].player_id = t[j].player_id /\ t[i].game_date = t[j].game_date)
                        => i = j} : n \in 1..MaxRows}
FeatureRowSets == {LagRows, CycleRows, NormRows, OvulationRows}

InitFeatures ==
    /\ \E rows \in FeatureRowSets : df \in Tables(rows)
    /\ dfLagged = <<>>
    /\ dfOut = <<>>
    /\ ModulesIdle
    /\ ServerIdle
    /\ EnsembleIdle
    /\ RestIdle
EngineerFeatures ==
    /\ dfOut = <<>>
    /\ dfLagged' = engineer_features_lagged(df)
    /\ dfOut' = engineer_features(df)
    /\ UNCHANGED <<df, moduleVars, serverVars, ensVars, restVars>>
NextFeatures == EngineerFeatures
SpecFeatures == InitFeatures /\ [][NextFeatures]_vars

EarlierGames(row) ==
    {j \in DOMAIN df : /\ df[j].player_id = row.player_id
                       /\ df[j].game_date < row.game_date}
PreviousGame(row) ==
    CHOOSE j \in EarlierGames(row) :
        \A k \in EarlierGames(row) : df[k].game_date <= df[j].game_date

(***************************************************************************)
(* C9  Before normalization, lagged_hrv is a one-step lag per player: a    *)
(* row's lagged_hrv is the hrv of the same player's latest earlier game of *)
(* the input table, it is missing for the player's first game, and this    *)
(* holds whatever the row order of the input.                              *)
(***************************************************************************)
C9_LaggedHrvPerPlayer ==
    /\ Len(dfLagged) \in {0, Len(df)}
    /\ \A i \in DOMAIN dfLagged :
        LET row == dfLagged[i]
        IN  /\ \E j \in DOMAIN df :
                    /\ df[j].player_id = row.player_id
                    /\ df[j].game_date = row.game_date
                    /\ df[j].hrv = row.hrv
            /\ IF EarlierGames(row) = {}
               THEN row.lagged_hrv = NA
               ELSE row.lagged_hrv = df[PreviousGame(row)].hrv
\* an input whose rows are out of order and interleave two players, and a
\* lagged value that is present
C9_Witness ==
    /\ dfLagged # <<>>
    /\ \E i, j \in DOMAIN df :
            i < j /\ df[i].player_id = df[j].player_id /\ df[i].game_date > df[j].game_date
    /\ \E i \in DOMAIN df : i + 1 \in DOMAIN df /\ df[i].player_id # df[i + 1].player_id
    /\ \E i \in DOMAIN dfLagged : dfLagged[i].lagged_hrv = Val(70)

\* what is required of one normalized column
ColumnNormalized(name) ==
    LET x == Column(dfLagged, name)
        out == Column(dfOut, name)
        present == NonMissing(x)
        lo == SetMin({x[i].num : i \in present})
        hi == SetMax({x[i].num : i \in present})
        rescaled == [i \in present |->
                        IF lo = hi THEN Frac(1, 2) ELSE Frac(x[i].num - lo, hi - lo)]
    IN  present # {} =>
            /\ \A i \in DOMAIN out :
                    /\ out[i].kind = "num"
                    /\ out[i].den > 0
                    /\ 0 <= out[i].num
                    /\ out[i].num <= out[i].den
            /\ \A i \in present : FracEq(out[i], rescaled[i])
            /\ \A i \in DOMAIN out \ present :
                    \* out[i] * |present| = the sum of the rescaled present values
                    LET d == IF lo = hi THEN 2 ELSE hi - lo
                        total == SumNum([j \in present |->
                                            Frac(rescaled[j].num, d)], present)
                    IN  out[i].num * Cardinality(present) * d = out[i].den * total

(***************************************************************************)
(* C10  After engineer_features, a normalized column with at least one     *)
(* non-missing value before normalization has no missing value, all its    *)
(* values are between 0 and 1, a present value is its min-max rescaling,   *)
(* and a missing one is replaced by the mean of the rescaled present       *)
(* values of the column.                                                   *)
(***************************************************************************)
C10_NormalizedColumns ==
    \A c \in DOMAIN norm_cols : ColumnNormalized(norm_cols[c])
\* a column with a missing entry and two different present values
C10_Witness ==
    /\ dfOut # <<>>
    /\ \E i, j, k \in DOMAIN dfLagged :
            /\ is_na(dfLagged[i].bbt)
            /\ ~is_na(dfLagged[j].bbt)
            /\ ~is_na(dfLagged[k].bbt)
            /\ dfLagged[j].bbt # dfLagged[k].bbt
            /\ FracEq(dfOut[i].bbt, Frac(1, 2))

(***************************************************************************)
(* predict_cycle_phase (src/cycle-aware-wnba/modeling/                     *)
(* predict_cycle_phase.R), called with athlete_data alone (health_data and *)
(* game_data are NULL).                                                    *)
(*                                                                         *)
(* athlete_data.columns is colnames(athlete_data), .nrow its number of     *)
(* records and .rows the records the model follows (all of them, or the    *)
(* first ones of a table of more than 50); .rf is what the random forest   *)
(* trained in the call answers for each of these records.  A confidence is *)
(* in units of 1/10000.                                                    *)
(***************************************************************************)
MaxRecords == 2

required_cols == <<"athlete_id", "game_date", "cycle_day", "menstrual_phase">>

\* (mutant: every required column is listed)
setdiffAll(x, y) == x
\* setdiff(x, y): the elements of x that are not in y, in the order of x
setdiff(x, y) == SelectSeq(x, LAMBDA c : c \notin y)

\* stop("Missing required columns in athlete_data: ", paste(..., collapse = ", "))
MissingColumnsError(columns) ==
    [status |-> "error",
     message |-> "Missing required columns in athlete_data: ",
     listed |-> setdiff(required_cols, columns)]

\* (mutant: a missing cycle_day counts as day 0)
days_since_period_zero(cd) == IF is_na(cd) THEN 0 ELSE cd.num
\* ifelse(is.na(cycle_day), 28, cycle_day)
days_since_period(cd) == IF is_na(cd) THEN 28 ELSE cd.num

\* case_when(days_since_period <= 5 ~ "menstrual", ..., TRUE ~ "irregular")
rule_phase(days) ==
    IF days <= 5 THEN "menstrual"
    ELSE IF days <= 13 THEN "follicular"
    ELSE IF days <= 17 THEN "ovulatory"
    ELSE IF days <= 28 THEN "luteal"
    ELSE "irregular"
\* case_when(days_since_period <= 28 ~ 0.8, TRUE ~ 0.4)
confidence_rule(days) == IF days <= 28 THEN 8000 ELSE 4000

\* sin(2 * pi * d / 28) + 0.5 for d = 0..35, in thousandths
EstrogenTable ==
    <<500, 723, 934, 1123, 1282, 1401, 1475, 1500, 1475, 1401, 1282, 1123, 934, 723,
      500, 277, 66, -123, -282, -401, -475, -500, -475, -401, -282, -123, 66, 277,
      500, 723, 934, 1123, 1282, 1401, 1475, 1500>>
\* cos(2 * pi * (d - 14) / 14) + 0.5 for d = 0..35, in thousandths
ProgesteroneTable ==
    <<1500, 1401, 1123, 723, 277, -123, -401, -500, -401, -123, 277, 723, 1123, 1401,
      1500, 1401, 1123, 723, 277, -123, -401, -500, -401, -123, 277, 723, 1123, 1401,
      1500, 1401, 1123, 723, 277, -123, -401, -500>>
estrogen_proxy(days) == EstrogenTable[days + 1]
progesterone_proxy(days) == IF days > 14 THEN ProgesteroneTable[days + 1] ELSE 0

predicted_phase_hormonal(days) ==
    LET e == estrogen_proxy(days)
        g == progesterone_proxy(days)
    IN  IF e > 700 /\ g < 300 THEN "follicular"
        ELSE IF e > 800 /\ g < 500 THEN "ovulatory"
        ELSE IF g > 500 THEN "luteal"
        ELSE "menstrual"
\* pmax(estrogen_proxy, progesterone_proxy) * 0.9
confidence_hormonal(days) == Max(estrogen_proxy(days), progesterone_proxy(days)) * 9

PhaseLabels == {"menstrual", "follicular", "ovulatory", "luteal"}

\* nrow(athlete_features) > 50: the forest's class and its largest class
\* probability; otherwise the rule-based phase and confidence
ml_phase(data, i) ==
    IF data.nrow > 50 THEN data.rf[i].phase
    ELSE rule_phase(days_since_period(data.rows[i]))
ml_confidence(data, i) ==
    IF data.nrow > 50 THEN data.rf[i].confidence
    ELSE confidence_rule(days_since_period(data.rows[i]))

\* rule_confidence * 0.5 + ml_confidence * 0.3 + hormonal_confidence * 0.2,
\* in units of 1/100000
ensemble_confidence(rule_c, ml_c, hormonal_c) == rule_c * 5 + ml_c * 3 + hormonal_c * 2

\* case_when(rule_confidence > 0.7 ~ rule_phase, ml_confidence > 0.8 ~ ml_phase,
\*           TRUE ~ rule_phase)
final_phase(rule_p, rule_c, ml_p, ml_c) ==
    IF rule_c > 7000 THEN rule_p
    ELSE IF ml_c > 8000 THEN ml_p
    ELSE rule_p

\* impact probability in hundredths; adjusted_impact = pmin(1.0, impact * 1.0)
impact_probability(phase) ==
    IF phase = "menstrual" THEN 30
    ELSE IF phase = "follicular" THEN 10
    ELSE IF phase = "ovulatory" THEN 20
    ELSE IF phase = "luteal" THEN 40
    ELSE 25
adjusted_impact(phase) == Min(100, impact_probability(phase))

PredictionRow(data, i) ==
    LET days == days_since_period(data.rows[i])
        rule_c == confidence_rule(days)
        final == final_phase(rule_phase(days), rule_c, ml_phase(data, i), ml_confidence(data, i))
    IN  [cycle_day |-> data.rows[i],
         days_since_period |-> days,
         predicted_cycle_phase |-> final,
         phase_confidence |->
             ensemble_confidence(rule_c, ml_confidence(data, i), confidence_hormonal(days)),
         impact_probability |-> adjusted_impact(final),
         rule_based_phase |-> rule_phase(days),
         ml_phase |-> ml_phase(data, i),
         hormonal_phase |-> predicted_phase_hormonal(days),
         follicular_phase |-> IF days <= 14 THEN 1 ELSE 0,
         ovulation_phase |-> IF days >= 12 /\ days <= 16 THEN 1 ELSE 0,
         luteal_phase |-> IF days > 16 THEN 1 ELSE 0]

predict_cycle_phase(data) ==
    IF \E i \in 1..Len(required_cols) : required_cols[i] \notin data.columns
    THEN MissingColumnsError(data.columns)
    ELSE [status |-> "ok", rows |-> [i \in 1..Len(data.rows) |-> PredictionRow(data, i)]]

\* Inputs of predict_cycle_phase
RequiredColumnSet == {required_cols[i] : i \in 1..Len(required_cols)}
ColumnSets == SUBSET RequiredColumnSet \cup {RequiredColumnSet \cup {"hr"}}
CycleDayValues == {NA} \cup {Val(d) : d \in {3, 10, 15, 28, 30}}
RfAnswers == [phase : PhaseLabels, confidence : {6000, 9000}]
RfPlaceholder == [phase |-> "menstrual", confidence |-> 0]
RecordSeqs == UNION {[1..n -> CycleDayValues] : n \in 1..MaxRecords}
\* a table of at most 50 records: no forest is trained
SmallTable(c, r) ==
    [columns |-> c, nrow |-> Len(r), rows |-> r, rf |-> [i \in 1..Len(r) |-> RfPlaceholder]]
\* a table of 51 records with all required columns, with the forest's answers
LargeTable(r, f) == [columns |-> RequiredColumnSet, nrow |-> 51, rows |-> r, rf |-> f]

InitPhase ==
    /\ \E c \in ColumnSets, r \in RecordSeqs :
           \/ athlete_data = SmallTable(c, r)
           \/ /\ c = RequiredColumnSet
              /\ \E f \in [1..Len(r) -> RfAnswers] : athlete_data = LargeTable(r, f)
    /\ final_predictions = Unset
    /\ ModulesIdle /\ ServerIdle /\ EnsembleIdle /\ FeaturesIdle
    /\ ParityIdle /\ UiIdle /\ LateIdle

PredictCyclePhase ==
    /\ final_predictions = Unset
    /\ final_predictions' = predict_cycle_phase(athlete_data)
    /\ UNCHANGED <<athlete_data, parityVars, uiVars, lateVars>>
    /\ UNCHANGED <<moduleVars, serverVars, ensVars, featVars>>

NextPhase == PredictCyclePhase
SpecPhase == InitPhase /\ [][NextPhase]_vars

PhaseCalled == final_predictions # Unset

(***************************************************************************)
(* C11: when athlete_data lacks any of athlete_id, game_date, cycle_day,   *)
(* menstrual_phase, predict_cycle_phase stops with the error "Missing      *)
(* required columns in athlete_data: " followed by exactly the missing     *)
(* required columns (each once) and returns no predictions; when all four  *)
(* are present the check raises no error, whatever other columns exist.    *)
(***************************************************************************)
C11_MissingColumnsStop ==
    PhaseCalled =>
        LET missing == RequiredColumnSet \ athlete_data.columns
        IN  IF missing # {}
            THEN /\ final_predictions.status = "error"
                 /\ final_predictions.message = "Missing required columns in athlete_data: "
                 /\ {final_predictions.listed[i] : i \in 1..Len(final_predictions.listed)}
                        = missing
                 /\ Len(final_predictions.listed) = Cardinality(missing)
                 /\ "rows" \notin DOMAIN final_predictions
            ELSE /\ final_predictions.status = "ok"
                 /\ Len(final_predictions.rows) = Len(athlete_data.rows)

C11_Witness ==
    /\ PhaseCalled
    /\ athlete_data.columns = {"athlete_id", "menstrual_phase"}
    /\ final_predictions.status = "error"
    /\ final_predictions.listed = <<"game_date", "cycle_day">>

(***************************************************************************)
(* parity_check (src/cycle-aware-wnba/utils/parity_check.R).               *)
(*                                                                         *)
(* parity_env holds the arguments and what the environment answers:        *)
(*   seed_consistent  isTRUE(all.equal(random_test_1, random_test_2))      *)
(*   model_path       "NULL", "missing" (no such file) or "exists"         *)
(*   model            whether readRDS can read the file, and names(model)  *)
(*   test_data        NULL, or names,   nrow and the largest per-column    *)
(*                    count of missing values of the data frame            *)
(*   repro            how the two predict_cycle_phase runs compare         *)
(*   scientific       whether a function scientific() is on the search     *)
(*                    path (parity_check attaches no package that has one) *)
(*   reference        reference_results: "NULL", without auc, or how far   *)
(*                    its auc is from the model's                          *)
(* The packages parity_check requires (digest, dplyr) are installed.       *)
(* parity_results carries the returned list and, in output, the lines      *)
(* written with cat that tell the sections apart.                          *)
(***************************************************************************)
\* NULL as the value of an argument
RNull == [kind |-> "NULL"]

NoModelChecks ==
    [metadata |-> FALSE, auc |-> FALSE, features |-> FALSE, structure_valid |-> "NULL"]

\* parity_results as initialised
InitialParityResults ==
    [status |-> "returned",
     model_checks |-> NoModelChecks,
     data_checks |-> [set |-> FALSE],
     reproducibility_score |-> 0,
     recommendations |-> <<>>,
     assessment |-> "NULL",
     output |-> <<>>]

AddScore(pr, n) == [pr EXCEPT !.reproducibility_score = @ + n]
\* c(parity_results$recommendations, paste(text, detail))
AddRecommendation(pr, text, detail) ==
    [pr EXCEPT !.recommendations = Append(@, [text |-> text, detail |-> detail])]
Cat(pr, line) == [pr EXCEPT !.output = Append(@, line)]

SeedCheck(env, pr) ==
    IF env.seed_consistent
    THEN AddScore(Cat(pr, "Random seed reproducibility: PASS"), 20)
    ELSE AddRecommendation(Cat(pr, "Random seed reproducibility: FAIL"),
                           "Random seed reproducibility failed - check R installation", <<>>)

required_components == <<"lasso", "rf", "features", "auc", "metadata">>

\* error = function(e) of the model validation: the message is written; the two
\* assignments to parity_results change a copy local to the handler
ModelErrorHandler(pr, message) == Cat(pr, "Model loading failed:")

\* body of the tryCatch of the model validation
ModelTry(model, pr) ==
    IF ~model.readable THEN ModelErrorHandler(pr, "readRDS")
    ELSE
      LET missing_components == setdiff(required_components, model.components)
          checked ==
              IF Len(missing_components) = 0
              THEN AddScore(Cat(pr, "Model structure: COMPLETE"), 20)
              ELSE AddRecommendation(Cat(pr, "Model missing components:"),
                                     "Model missing:", missing_components)
          has_metadata == "metadata" \in model.components
          has_features == "features" \in model.components
      IN  \* round(model$auc, 3) of a model without auc is an error
          IF has_metadata /\ "auc" \notin model.components
          THEN ModelErrorHandler(checked, "round")
          ELSE [checked EXCEPT
                   !.model_checks = [metadata |-> has_metadata,
                                     auc |-> has_metadata,
                                     features |-> has_features,
                                     structure_valid |-> "TRUE"]]

\* (mutant: a missing model file is passed over in silence)
ModelNotFoundSilent(pr) == pr
\* else if (!is.null(model_path))
ModelNotFound(pr) ==
    AddRecommendation(Cat(Cat(pr, "=== Model Validation ==="), "Model file not found:"),
                      "Model file not found - check path", <<>>)

ModelValidation(env, pr) ==
    IF env.model_path = "exists" THEN ModelTry(env.model, Cat(pr, "=== Model Validation ==="))
    ELSE IF env.model_path # "NULL" THEN ModelNotFound(pr)
    ELSE pr

expected_cols == <<"athlete_id", "game_date", "cycle_day">>

\* (mutant: the data quality check is worth 30 points)
DataQualityPointsDouble(td) == IF td.row_count > 0 /\ 2 * td.max_na < td.row_count THEN 30 ELSE 0
\* row_count > 0 && all(na_counts < row_count * 0.5)
DataQualityPoints(td) == IF td.row_count > 0 /\ 2 * td.max_na < td.row_count THEN 15 ELSE 0

DataValidation(env, pr) ==
    IF env.test_data = RNull THEN pr
    ELSE
      LET td == env.test_data
          missing_cols == setdiff(expected_cols, td.columns)
          structure ==
              IF Len(missing_cols) = 0
              THEN AddScore(Cat(Cat(pr, "=== Data Validation ==="),
                                "Required columns present"), 15)
              ELSE AddRecommendation(Cat(Cat(pr, "=== Data Validation ==="),
                                         "Missing required columns:"),
                                     "Missing data columns:", missing_cols)
          recorded ==
              [structure EXCEPT !.data_checks =
                  [set |-> TRUE, row_count |-> td.row_count, columns |-> td.columns]]
      IN  AddScore(recorded, DataQualityPoints(td))

\* error = function(e) of the reproducibility test: as in the model validation,
\* the recommendation is appended to a copy local to the handler
ReproErrorHandler(pr, message) == Cat(pr, "Reproducibility test failed:")

\* predict_cycle_phase(test_data) stops when a column it requires is missing;
\* otherwise the comparison of the two runs is parity_env.repro
ReproOutcome(env) ==
    IF \E i \in 1..Len(required_cols) : required_cols[i] \notin env.test_data.columns
    THEN "error"
    ELSE env.repro

\* body of the tryCatch of the reproducibility test
ReproTry(env, pr) ==
    LET outcome == ReproOutcome(env)
    IN  IF outcome = "error" THEN ReproErrorHandler(pr, "predict_cycle_phase")
        ELSE IF outcome = "sizes_differ"
        THEN AddRecommendation(Cat(pr, "Prediction reproducibility: FAILED"),
                               "Prediction results have different sizes between runs", <<>>)
        ELSE IF outcome = "perfect"
        THEN AddScore(Cat(pr, "Prediction reproducibility: PERFECT"), 30)
        \* the next two lines are written with scientific(max_diff)
        ELSE IF ~env.scientific THEN ReproErrorHandler(pr, "scientific")
        ELSE IF outcome = "good"
        THEN AddScore(Cat(pr, "Prediction reproducibility: GOOD"), 25)
        ELSE AddRecommendation(
                 AddScore(Cat(pr, "Prediction reproducibility: MARGINAL"), 10),
                 "Prediction reproducibility concerns - check random processes", <<>>)

ReproducibilityTest(env, pr) ==
    IF env.model_path # "NULL" /\ env.test_data # RNull /\ env.model_path = "exists"
    THEN ReproTry(env, Cat(pr, "=== Reproducibility Test ==="))
    ELSE pr

ReferenceComparison(env, pr) ==
    IF env.reference = "NULL" THEN pr
    ELSE IF env.reference # "no_auc" /\ pr.model_checks.auc
    THEN IF env.reference = "match" THEN Cat(pr, "AUC matches reference")
         ELSE IF env.reference = "close"
         THEN AddRecommendation(Cat(pr, "AUC close to reference"),
                                "AUC differs from reference - investigate model changes", <<>>)
         ELSE AddRecommendation(Cat(pr, "AUC significantly different from reference"),
                                "AUC significantly different - major model change detected",
                                <<>>)
    ELSE pr

Assessment(score) ==
    IF score >= 90 THEN "EXCELLENT"
    ELSE IF score >= 70 THEN "GOOD"
    ELSE IF score >= 50 THEN "MARGINAL"
    ELSE "POOR"

FinalAssessment(pr) == [pr EXCEPT !.assessment = Assessment(pr.reproducibility_score)]

parity_check(env) ==
    FinalAssessment(
        ReferenceComparison(env,
            ReproducibilityTest(env,
                DataValidation(env,
                    ModelValidation(env,
                        SeedCheck(env, InitialParityResults))))))

\* Inputs of parity_check
ModelFiles ==
    {[readable |-> FALSE, components |-> {}]} \cup
    {[readable |-> TRUE, components |-> c] :
        c \in {{"lasso", "rf", "features", "auc", "metadata"},
               {"lasso", "rf", "features", "auc", "metadata", "notes"},
               {"lasso", "features", "auc", "metadata"},
               {"lasso", "rf", "features", "metadata"},
               {"lasso", "rf", "auc"},
               {}}}
TestTables ==
    {RNull} \cup
    [columns : {{"athlete_id", "game_date", "cycle_day", "menstrual_phase"},
                {"athlete_id", "game_date", "cycle_day"},
                {"athlete_id", "cycle_day", "menstrual_phase"}},
     row_count : {4},
     max_na : {0, 1, 2, 4}]
    \cup
    [columns : {{"athlete_id", "game_date", "cycle_day", "menstrual_phase"}},
     row_count : {0},
     max_na : {0}]
ParityInputs ==
    [seed_consistent : BOOLEAN,
     model_path : {"NULL", "missing", "exists"},
     model : ModelFiles,
     test_data : TestTables,
     repro : {"error", "sizes_differ", "perfect", "good", "marginal"},
     scientific : BOOLEAN,
     reference : {"NULL", "no_auc", "match", "close", "far"}]

InitParity ==
    /\ parity_env \in ParityInputs
    /\ parity_results = Unset
    /\ ModulesIdle /\ ServerIdle /\ EnsembleIdle /\ FeaturesIdle
    /\ PhaseIdle /\ UiIdle /\ LateIdle

ParityCheck ==
    /\ parity_results = Unset
    /\ parity_results' = parity_check(parity_env)
    /\ UNCHANGED <<parity_env, phaseVars, uiVars, lateVars>>
    /\ UNCHANGED <<moduleVars, serverVars, ensVars, featVars>>

NextParity == ParityCheck
SpecParity == InitParity /\ [][NextParity]_vars

ParityReturned == parity_results # Unset
HasRecommendation(text) ==
    \E i \in 1..Len(parity_results.recommendations) :
        parity_results.recommendations[i].text = text
Written(line) == \E i \in 1..Len(parity_results.output) : parity_results.output[i] = line

(***************************************************************************)
(* C12: called with a model_path that names no existing file, parity_check *)
(* raises no error: it writes that the model file was not found, adds the  *)
(* recommendation "Model file not found - check path", gives no points for *)
(* model structure, skips the reproducibility test, and still returns with *)
(* a score and an assessment.                                              *)
(***************************************************************************)
C12_ModelFileNotFound ==
    (ParityReturned /\ parity_env.model_path = "missing") =>
        /\ parity_results.status = "returned"
        /\ Written("Model file not found:")
        /\ HasRecommendation("Model file not found - check path")
        /\ ~Written("Model structure: COMPLETE")
        /\ parity_results.model_checks = NoModelChecks
        /\ parity_results.reproducibility_score
               - (IF parity_env.seed_consistent THEN 20 ELSE 0)
               \in (IF parity_env.test_data = RNull THEN {0} ELSE {0, 15, 30})
        /\ ~Written("=== Reproducibility Test ===")
        /\ parity_results.assessment \in {"MARGINAL", "POOR"}

C12_Witness ==
    /\ ParityReturned
    /\ parity_env.model_path = "missing"
    /\ parity_env.test_data # RNull
    /\ parity_results.reproducibility_score = 50
    /\ parity_results.assessment = "MARGINAL"
    /\ HasRecommendation("Model file not found - check path")

PredictionsMade == PhaseCalled /\ final_predictions.status = "ok"

(***************************************************************************)
(* C13 as stated: the rule-based phase of every record is one of           *)
(* menstrual, follicular, ovulatory, luteal, including records whose       *)
(* cycle_day is missing or greater than 28.                                *)
(***************************************************************************)
C13_RulePhaseAmongFour ==
    PredictionsMade =>
        \A i \in 1..Len(final_predictions.rows) :
            final_predictions.rows[i].rule_based_phase \in PhaseLabels

(***************************************************************************)
(* C13 amended: the rule-based phase of a record is menstrual for          *)
(* cycle_day up to 5, follicular up to 13, ovulatory up to 17, luteal up   *)
(* to 28 and for a missing cycle_day (counted as day 28), and "irregular"  *)
(* for a cycle_day greater than 28.                                        *)
(***************************************************************************)
C13_RulePhaseByDay ==
    PredictionsMade =>
        \A i \in 1..Len(final_predictions.rows) :
            LET cd == athlete_data.rows[i]
                phase == final_predictions.rows[i].rule_based_phase
            IN  /\ cd.kind # "num" => phase = "luteal"
                /\ cd.kind = "num" =>
                     /\ phase = "menstrual" <=> cd.num <= 5
                     /\ phase = "follicular" <=> (5 < cd.num /\ cd.num <= 13)
                     /\ phase = "ovulatory" <=> (13 < cd.num /\ cd.num <= 17)
                     /\ phase = "luteal" <=> (17 < cd.num /\ cd.num <= 28)
                     /\ phase = "irregular" <=> cd.num > 28

C13_Witness ==
    /\ PredictionsMade
    /\ Len(final_predictions.rows) = 2
    /\ athlete_data.rows[1] = NA
    /\ final_predictions.rows[1].rule_based_phase = "luteal"
    /\ athlete_data.rows[2] = Val(30)
    /\ final_predictions.rows[2].rule_based_phase = "irregular"

(***************************************************************************)
(* The React application (src/cycle-aware-wnba/src/App.jsx and pages) and  *)
(* the Shiny dashboard (src/cycle-aware-wnba/dashboard/app.R).             *)
(*                                                                         *)
(* route is the route the router shows, ethicsMode the state of the        *)
(* mounted Dashboard, satire the value of the Shiny checkbox input.        *)
(* renders records what is on screen after each event: the elements of the *)
(* React page and of the Shiny page.  The Home page is known by name only. *)
(***************************************************************************)
MaxUiEvents == 4

Routes == {"/", "/dashboard", "/crampcast"}

\* Dashboard(): EthicsToggle, then one of the two fragments
DashboardView(mode) ==
    {"EthicsToggle"} \cup
    (IF ~mode
     THEN {"h1:Q4Trackr Satirical Dashboard", "CrampCast", "Ovulytics"}
     ELSE {"h1:Cycle Transparency Dashboard", "Cycle Phase Summary", "anonymized notice"})

\* CrampCast() page
CrampCastPageView ==
    {"h1:CrampCast: Live from the Luteal Zone", "MoodSwingMeter", "CycleStageTracker"}

\* <Routes>
RouteView(r, mode) ==
    IF r = "/dashboard" THEN DashboardView(mode)
    ELSE IF r = "/crampcast" THEN CrampCastPageView
    ELSE {"Home"}

\* ui of the Shiny app: conditionalPanel(condition = "input.satire == true", ...)
ShinyView(checked) ==
    {"checkbox:satire", "probPlot", "predTable"} \cup
    (IF checked = TRUE
     THEN {"h4:CrampCast", "crampPlot", "h4:MoodSwingMeter", "moodPlot"}
     ELSE {})

\* (mutant: the button always switches to ethics mode)
EthicsToggleSet(prev) == TRUE
\* setEthicsMode((prev) => !prev)
EthicsToggleClick(prev) == ~prev

Screen(event, r, mode, checked) ==
    [event |-> event, route |-> r, ethicsMode |-> mode, satire |-> checked,
     react |-> RouteView(r, mode), shiny |-> ShinyView(checked)]

InitUI ==
    /\ route \in Routes
    /\ ethicsMode = FALSE       \* useState(false)
    /\ satire = TRUE            \* checkboxInput("satire", ..., TRUE)
    /\ renders = <<Screen("load", route, ethicsMode, satire)>>
    /\ ModulesIdle /\ ServerIdle /\ EnsembleIdle /\ FeaturesIdle
    /\ PhaseIdle /\ ParityIdle /\ LateIdle

UiStep(event) ==
    /\ renders' = Append(renders, Screen(event, route', ethicsMode', satire'))
    /\ UNCHANGED <<moduleVars, serverVars, ensVars, featVars, phaseVars, parityVars, lateVars>>

\* a <Link> to another route: the page of the old route is unmounted, and a
\* Dashboard mounted anew starts from useState(false)
Navigate(r) ==
    /\ Len(renders) <= MaxUiEvents
    /\ r # route
    /\ route' = r
    /\ ethicsMode' = FALSE
    /\ UNCHANGED satire
    /\ UiStep("navigate")

\* onClick of the EthicsToggle button, which only the Dashboard renders
ClickEthicsToggle ==
    /\ Len(renders) <= MaxUiEvents
    /\ "EthicsToggle" \in RouteView(route, ethicsMode)
    /\ ethicsMode' = EthicsToggleClick(ethicsMode)
    /\ UNCHANGED <<route, satire>>
    /\ UiStep("click")

\* the user checks or unchecks the Shiny checkbox
ToggleSatire ==
    /\ Len(renders) <= MaxUiEvents
    /\ satire' = ~satire
    /\ UNCHANGED <<route, ethicsMode>>
    /\ UiStep("checkbox")

NextUI ==
    \/ \E r \in Routes : Navigate(r)
    \/ ClickEthicsToggle
    \/ ToggleSatire

SpecUI == InitUI /\ [][NextUI]_vars

DashboardScreens == {i \in 1..Len(renders) : renders[i].route = "/dashboard"}

(***************************************************************************)
(* C14: the Dashboard has one boolean mode, which is satire mode when the  *)
(* Dashboard is mounted; each click of the EthicsToggle flips it, so two   *)
(* clicks in a row restore it; and on every Dashboard screen exactly one   *)
(* of the two views is rendered: the CrampCast and Ovulytics overlays only *)
(* in satire mode, the Cycle Transparency summary only in ethics mode.     *)
(***************************************************************************)
C14_OneModeOneView ==
    \A i \in DashboardScreens :
        LET s == renders[i]
            satireView == "h1:Q4Trackr Satirical Dashboard" \in s.react
            ethicsView == "h1:Cycle Transparency Dashboard" \in s.react
        IN  /\ s.ethicsMode \in BOOLEAN
            /\ s.event \in {"load", "navigate"} => s.ethicsMode = FALSE
            /\ s.event = "click" => s.ethicsMode = ~renders[i - 1].ethicsMode
            /\ (s.event = "click" /\ renders[i - 1].event = "click")
                   => s.ethicsMode = renders[i - 2].ethicsMode
            /\ satireView # ethicsView
            /\ satireView <=> ~s.ethicsMode
            /\ {"CrampCast", "Ovulytics"} \subseteq s.react <=> ~s.ethicsMode
            /\ s.ethicsMode => {"CrampCast", "Ovulytics"} \cap s.react = {}
            /\ "Cycle Phase Summary" \in s.react <=> s.ethicsMode

C14_Witness ==
    /\ Len(renders) >= 3
    /\ renders[1].route = "/dashboard" /\ "CrampCast" \in renders[1].react
    /\ renders[2].event = "click" /\ "Cycle Phase Summary" \in renders[2].react
    /\ renders[2].ethicsMode
    /\ renders[3].event = "click" /\ "Ovulytics" \in renders[3].react
    /\ ~renders[3].ethicsMode

\* the CrampCast and MoodSwingMeter overlays as elements of a React page and
\* of the Shiny page
ReactOverlays == {"CrampCast", "MoodSwingMeter"}
ShinyOverlays == {"h4:CrampCast", "crampPlot", "h4:MoodSwingMeter", "moodPlot"}

(***************************************************************************)
(* C15: all satirical overlays are toggleable: every screen that displays  *)
(* a CrampCast or MoodSwingMeter overlay has a toggle, and that toggle is  *)
(* on (with the toggle off none of the overlays is displayed); in the      *)
(* Shiny app the overlay panels are shown exactly when the satire checkbox *)
(* is checked.                                                             *)
(***************************************************************************)
C15_OverlaysToggleable ==
    \A i \in 1..Len(renders) :
        LET s == renders[i]
        IN  /\ (ReactOverlays \cap s.react # {})
                   => ("EthicsToggle" \in s.react /\ ~s.ethicsMode)
            /\ "checkbox:satire" \in s.shiny
            /\ ShinyOverlays \subseteq s.shiny <=> s.satire
            /\ ~s.satire => ShinyOverlays \cap s.shiny = {}

(***************************************************************************)
(* The server with module calls that can fail.  A module method runs in a  *)
(* try block and rethrows whatever is thrown inside it as a new Error with *)
(* the module's prefix; the handler of GET /prediction/:playerName catches *)
(* it.  Cause is the message of the error thrown inside the module.        *)
(***************************************************************************)
Causes == {"Invalid time value", "Maximum call stack size exceeded"}

\* throw new Error(`<Module> ... failed: ${error.message}`)
ModuleError(prefix, cause) == [prefix |-> prefix, cause |-> cause]
MoodMeeterError(cause) == ModuleError("MoodMeeter analysis failed: ", cause)
CrampCastError(cause) == ModuleError("CrampCast prediction failed: ", cause)
MoodSwingMeterError(cause) == ModuleError("MoodSwingMeter analysis failed: ", cause)
OvulyticsError(cause) == ModuleError("Ovulytics tracking failed: ", cause)

\* (mutant: the error is answered without the ethical notice)
ErrorResponseWithoutNotice(message) ==
    [status |-> "500",
     body |-> [error |-> "Prediction analysis failed", message |-> message]]
\* res.status(500).json({...}) of the catch block
ErrorResponse(message) ==
    [status |-> "500",
     body |-> [error |-> "Prediction analysis failed",
               message |-> message,
               ethical_notice |-> "This system uses satirical data only"]]

\* the catch block: the handler ends with the error response
Catch(i, request, message) ==
    ServerStep(i, [request EXCEPT !.pc = "done", !.response = ErrorResponse(message)])

\* the request arrives and moodMeeter.analyzeMood throws
AnalyzeMoodThrows(i) ==
    /\ reqs[i].pc = "idle"
    /\ LET name == IF reqs[i].param # "" THEN reqs[i].param ELSE samplePlayer
       IN  \E cause \in Causes :
               Catch(i, [reqs[i] EXCEPT !.playerName = name], MoodMeeterError(cause))

\* moodData is assigned and crampCast.predictCramps throws
PredictCrampsThrows(i) ==
    /\ reqs[i].pc = "await analyzeMood"
    /\ \E cause \in Causes : Catch(i, reqs[i], CrampCastError(cause))

\* crampData is assigned and moodSwingMeter.analyzeMoodSwings throws
AnalyzeMoodSwingsThrows(i) ==
    /\ reqs[i].pc = "await predictCramps"
    /\ \E cause \in Causes : Catch(i, reqs[i], MoodSwingMeterError(cause))

\* moodSwingData is assigned and ovulytics.trackOvulation throws
TrackOvulationThrows(i) ==
    /\ reqs[i].pc = "await analyzeMoodSwings"
    /\ \E cause \in Causes : Catch(i, reqs[i], OvulyticsError(cause))

NextFaults ==
    \E i \in Requests :
        \/ Arrive(i)
        \/ AfterAnalyzeMood(i)
        \/ AfterPredictCramps(i)
        \/ AfterAnalyzeMoodSwings(i)
        \/ Respond(i)
        \/ AnalyzeMoodThrows(i)
        \/ PredictCrampsThrows(i)
        \/ AnalyzeMoodSwingsThrows(i)
        \/ TrackOvulationThrows(i)
SpecFaults == InitServer /\ [][NextFaults]_vars

\* the data the handler holds of the four module calls, in call order
ModuleData(request) ==
    <<request.moodData, request.crampData, request.moodSwingData, request.ovulationData>>
ModulePrefixes ==
    <<"MoodMeeter analysis failed: ", "CrampCast prediction failed: ",
      "MoodSwingMeter analysis failed: ", "Ovulytics tracking failed: ">>

(***************************************************************************)
(* C16: when one of the four module calls of a GET /prediction/:playerName *)
(* request throws, the request is answered with status 500 and a body with *)
(* exactly the fields error, message and ethical_notice (no field of the   *)
(* prediction object), the message being that of the failing module; the   *)
(* modules after the failing one are not called for it (their data is      *)
(* never obtained); and the server still accepts every request that has    *)
(* not arrived yet.  A request none of whose calls throws is answered 200. *)
(***************************************************************************)
C16_ModuleErrorAnswered ==
    \A i \in Requests :
        reqs[i].pc = "done" =>
            LET data == ModuleData(reqs[i])
                failed == {k \in 1..4 : data[k] = NoData}
                response == reqs[i].response
            IN  IF failed = {}
                THEN response.status = "200"
                ELSE /\ response.status = "500"
                     /\ DOMAIN response.body = {"error", "message", "ethical_notice"}
                     /\ DOMAIN response.body \cap ResponseFields = {}
                     /\ response.body.error = "Prediction analysis failed"
                     /\ response.body.ethical_notice = "This system uses satirical data only"
                     /\ \E k \in 1..4 :
                            /\ failed = k..4
                            /\ response.body.message.prefix = ModulePrefixes[k]
                     /\ modules = Modules
                     /\ \A j \in Requests : reqs[j].pc = "idle" => ENABLED Arrive(j)

C16_Witness ==
    /\ reqs[1].pc = "done"
    /\ reqs[1].response.status = "500"
    /\ reqs[1].crampData # NoData
    /\ reqs[1].moodSwingData = NoData
    /\ reqs[1].response.body.message.prefix = "MoodSwingMeter analysis failed: "
    /\ reqs[2].pc = "done"
    /\ reqs[2].response.status = "200"

\* every object a module method can return to the server
MoodOutputs ==
    UNION {ServerMoodData[MoodMeeter, n, d, z] :
               n \in Players, d \in ServerDates, z \in ServerZones}
CrampOutputs ==
    UNION {ServerCrampData[CrampCast, n, d, z] :
               n \in Players, d \in ServerDates, z \in ServerZones}
SwingOutputs ==
    UNION {ServerSwingData[MoodSwingMeter, n, d, z] :
               n \in Players, d \in ServerDates, z \in ServerZones}
OvulationOutputs ==
    UNION {ServerOvulationData[Ovulytics, n, d, z] :
               n \in Players, d \in ServerDates, z \in ServerZones}

(***************************************************************************)
(* C17: the Q4 prediction text is based on all four module outputs, so the *)
(* ovulation output can influence it: for an answered request there are    *)
(* mood, cramp and mood-swing outputs and two ovulation outputs for which  *)
(* generateQ4Prediction returns different texts.                           *)
(***************************************************************************)
C17_OvulationInfluencesText ==
    \A i \in Requests :
        reqs[i].response.status = "200" =>
            \E m \in MoodOutputs \cup {reqs[i].moodData},
               c \in CrampOutputs \cup {reqs[i].crampData},
               w \in SwingOutputs \cup {reqs[i].moodSwingData},
               o \in OvulationOutputs :
                generateQ4Prediction(m, c, w, o)
                    # generateQ4Prediction(m, c, w, reqs[i].ovulationData)

\* the confidences the ensemble weighs for record i, as predict_cycle_phase
\* computes them from athlete_data
RuleConfidence(i) == confidence_rule(days_since_period(athlete_data.rows[i]))
MlConfidence(i) == ml_confidence(athlete_data, i)
HormonalConfidence(i) == confidence_hormonal(days_since_period(athlete_data.rows[i]))

\* the weight of the votes for a phase on record i: the weights 0.5, 0.3 and
\* 0.2 of the ensemble, each times the confidence of the method voting for it
VoteWeight(i, phase) ==
    LET row == final_predictions.rows[i]
    IN  (IF row.rule_based_phase = phase THEN 5 * RuleConfidence(i) ELSE 0)
        + (IF row.ml_phase = phase THEN 3 * MlConfidence(i) ELSE 0)
        + (IF row.hormonal_phase = phase THEN 2 * HormonalConfidence(i) ELSE 0)
VotedPhases(i) ==
    LET row == final_predictions.rows[i]
    IN  {row.rule_based_phase, row.ml_phase, row.hormonal_phase}

(***************************************************************************)
(* C18: the final predicted_cycle_phase of every record is the majority    *)
(* vote of the rule-based, machine-learning and hormonal predictions with  *)
(* confidence weighting: it is one of the three predicted phases, and no   *)
(* other predicted phase has a greater confidence-weighted vote, so both   *)
(* the hormonal and the machine-learning prediction take part.             *)
(***************************************************************************)
C18_WeightedMajorityVote ==
    PredictionsMade =>
        \A i \in 1..Len(final_predictions.rows) :
            LET final == final_predictions.rows[i].predicted_cycle_phase
            IN  /\ final \in VotedPhases(i)
                /\ \A phase \in VotedPhases(i) : VoteWeight(i, phase) <= VoteWeight(i, final)

\* the checks of parity_check that passed, read from its arguments and from
\* what the environment answered
SeedPassed == parity_env.seed_consistent
ModelStructurePassed ==
    /\ parity_env.model_path = "exists"
    /\ parity_env.model.readable
    /\ \A k \in 1..Len(required_components) :
           required_components[k] \in parity_env.model.components
ColumnsPassed ==
    /\ parity_env.test_data # RNull
    /\ \A k \in 1..Len(expected_cols) : expected_cols[k] \in parity_env.test_data.columns
QualityPassed ==
    /\ parity_env.test_data # RNull
    /\ parity_env.test_data.row_count > 0
    /\ 2 * parity_env.test_data.max_na < parity_env.test_data.row_count
\* the two prediction runs were made and compared, and the line reporting the
\* comparison could be written
ReproCompared(outcome) ==
    /\ parity_env.model_path = "exists"
    /\ parity_env.test_data # RNull
    /\ RequiredColumnSet \subseteq parity_env.test_data.columns
    /\ parity_env.repro = outcome
    /\ outcome # "perfect" => parity_env.scientific

(***************************************************************************)
(* C19: the reproducibility_score parity_check returns is between 0 and    *)
(* 100: it is the sum, each counted once, of 20 for the seed check, 20 for *)
(* a complete model structure, 15 for the required data columns, 15 for    *)
(* data quality, and 30, 25 or 10 for a perfect, good or marginal          *)
(* prediction reproducibility; the assessment is EXCELLENT exactly from    *)
(* 90, GOOD from 70, MARGINAL from 50, and POOR below.                     *)
(***************************************************************************)
C19_ScoreAndAssessment ==
    ParityReturned =>
        LET score == parity_results.reproducibility_score
        IN  /\ score \in 0..100
            /\ score = (IF SeedPassed THEN 20 ELSE 0)
                       + (IF ModelStructurePassed THEN 20 ELSE 0)
                       + (IF ColumnsPassed THEN 15 ELSE 0)
                       + (IF QualityPassed THEN 15 ELSE 0)
                       + (IF ReproCompared("perfect") THEN 30 ELSE 0)
                       + (IF ReproCompared("good") THEN 25 ELSE 0)
                       + (IF ReproCompared("marginal") THEN 10 ELSE 0)
            /\ parity_results.assessment = "EXCELLENT" <=> score >= 90
            /\ parity_results.assessment = "GOOD" <=> (70 <= score /\ score < 90)
            /\ parity_results.assessment = "MARGINAL" <=> (50 <= score /\ score < 70)
            /\ parity_results.assessment = "POOR" <=> score < 50

C19_Witness ==
    /\ ParityReturned
    /\ ReproCompared("good")
    /\ parity_results.reproducibility_score = 95
    /\ parity_results.assessment = "EXCELLENT"

\* an error is raised while the model file is read or inspected
ModelLoadingFails ==
    /\ parity_env.model_path = "exists"
    /\ \/ ~parity_env.model.readable
       \/ /\ "metadata" \in parity_env.model.components
          /\ "auc" \notin parity_env.model.components
\* an error is raised inside the reproducibility test
ReproTestFails ==
    /\ parity_env.model_path = "exists"
    /\ parity_env.test_data # RNull
    /\ \/ ReproOutcome(parity_env) = "error"
       \/ ReproOutcome(parity_env) \in {"good", "marginal"} /\ ~parity_env.scientific

(***************************************************************************)
(* C20: when reading or inspecting the model file raises an error, the     *)
(* results parity_check returns have model_checks$structure_valid FALSE    *)
(* and a recommendation starting "Model loading error:"; when the          *)
(* reproducibility test raises an error, they have a recommendation        *)
(* starting "Reproducibility test error:".                                 *)
(***************************************************************************)
C20_ErrorsRecorded ==
    ParityReturned =>
        /\ ModelLoadingFails =>
               /\ parity_results.model_checks.structure_valid = "FALSE"
               /\ HasRecommendation("Model loading error:")
        /\ ReproTestFails => HasRecommendation("Reproducibility test error:")

MaxGames == 2

\* names(spread_sources) of the default list
DefaultSources == <<"espn", "sportsbook", "odds_api">>

\* team_mapping: variant -> standard name (the variants the model uses)
standardize_team_names(name) ==
    IF name \in {"LV Aces", "Vegas Aces", "LAS"} THEN "Las Vegas Aces"
    ELSE IF name \in {"Seattle", "SEA"} THEN "Seattle Storm"
    ELSE name

\* (mutant: a failed fetch empties the collection)
FetchFailedReset(run, source_name) ==
    [run EXCEPT !.i = @ + 1,
                !.all_spreads = <<>>,
                !.output = @ \o <<<<"Fetching from", source_name>>,
                                  <<"Error fetching from", source_name>>>>]
\* one iteration whose tryCatch body raises an error: the handler writes it
FetchFailed(run, source_name) ==
    [run EXCEPT !.i = @ + 1,
                !.output = @ \o <<<<"Fetching from", source_name>>,
                                  <<"Error fetching from", source_name>>>>]

\* one iteration whose fetch returns spread_data
FetchSucceeded(run, source_name, spread_data) ==
    IF Len(spread_data) > 0
    THEN [run EXCEPT !.i = @ + 1,
                     !.all_spreads =
                         @ \o [k \in 1..Len(spread_data) |->
                                  [spread_data[k] EXCEPT !.source = source_name]],
                     !.output = @ \o <<<<"Fetching from", source_name>>,
                                       <<"Retrieved", source_name>>>>]
    ELSE [run EXCEPT !.i = @ + 1,
                     !.output = Append(@, <<"Fetching from", source_name>>)]

\* mutate(...) of the standardization, for one record
StandardizeRecord(r) ==
    [r EXCEPT !.home_team = standardize_team_names(@),
              !.away_team = standardize_team_names(@)]

\* the order arrange(game_date, home_team) sorts by; the names that remain after
\* standardization, in alphabetical order
TeamRank(name) ==
    IF name = "Las Vegas Aces" THEN 1 ELSE IF name = "Seattle Storm" THEN 2 ELSE 3
SpreadLe(a, b) ==
    \/ a.game_date < b.game_date
    \/ a.game_date = b.game_date /\ TeamRank(a.home_team) <= TeamRank(b.home_team)

RECURSIVE InsertSpread(_, _)
InsertSpread(sorted, r) ==
    IF sorted = <<>> THEN <<r>>
    ELSE IF SpreadLe(sorted[Len(sorted)], r) THEN Append(sorted, r)
    ELSE Append(InsertSpread(SubSeq(sorted, 1, Len(sorted) - 1), r), sorted[Len(sorted)])
RECURSIVE arrangeSpreads(_)
arrangeSpreads(rows) ==
    IF rows = <<>> THEN <<>>
    ELSE InsertSpread(arrangeSpreads(SubSeq(rows, 1, Len(rows) - 1)), rows[Len(rows)])

\* (mutant: spreads that are not numbers are kept)
standardizeKeepAll(all_spreads) ==
    arrangeSpreads([k \in 1..Len(all_spreads) |-> StandardizeRecord(all_spreads[k])])
\* standardized_spreads: mutate, filter(!is.na(spread)), arrange
standardize(all_spreads) ==
    arrangeSpreads(
        SelectSeq([k \in 1..Len(all_spreads) |-> StandardizeRecord(all_spreads[k])],
                  LAMBDA r : ~is_na(r.spread)))

\* left_join of one record with game_data: one row per matching game, in the
\* order of game_data, or one row with a missing game_id
WithGameId(r, id) ==
    [f \in DOMAIN r \cup {"game_id"} |-> IF f = "game_id" THEN id ELSE r[f]]
RECURSIVE JoinGames(_, _)
JoinGames(r, games) ==
    IF games = <<>> THEN <<>>
    ELSE LET g == games[1]
             rest == JoinGames(r, SubSeq(games, 2, Len(games)))
         IN  IF g.game_date = r.game_date /\ g.home_team = r.home_team
                  /\ g.away_team = r.away_team
             THEN <<WithGameId(r, g.game_id)>> \o rest
             ELSE rest
JoinRecord(r, games) ==
    IF JoinGames(r, games) = <<>> THEN <<WithGameId(r, NA)>> ELSE JoinGames(r, games)

RECURSIVE FlattenRows(_)
FlattenRows(rowSeqs) ==
    IF rowSeqs = <<>> THEN <<>> ELSE rowSeqs[1] \o FlattenRows(SubSeq(rowSeqs, 2, Len(rowSeqs)))

\* aligned_spreads: left_join with game_data, filter(!is.na(game_id))
align(standardized_spreads, game_data) ==
    SelectSeq(
        FlattenRows([k \in 1..Len(standardized_spreads) |->
                        JoinRecord(standardized_spreads[k], game_data)]),
        LAMBDA r : ~is_na(r.game_id))

\* the summary of cycle_data for one game date, and the columns derived from it
\* (avg_menstrual_impact, avg_luteal_impact, cycle_adjustment_factor and
\* cycle_adjusted_spread are not followed); impact_probability is in hundredths
CycleOfDate(cycle_data, d) == SelectSeq(cycle_data, LAMBDA c : c.game_date = d)
cycle_impact_category(cycle_data, d) ==
    LET players == CycleOfDate(cycle_data, d)
        total_players == Len(players)
        high_impact_players == Len(SelectSeq(players, LAMBDA c : c.impact_probability > 30))
    IN  \* no summary for the date: high_impact_ratio is NA and no condition holds
        IF total_players = 0 THEN "low_cycle_impact"
        ELSE IF 10 * high_impact_players > 4 * total_players THEN "high_cycle_impact"
        ELSE IF 10 * high_impact_players > 2 * total_players THEN "moderate_cycle_impact"
        ELSE "low_cycle_impact"

WithCategory(r, category) ==
    [f \in DOMAIN r \cup {"cycle_impact_category"} |->
        IF f = "cycle_impact_category" THEN category ELSE r[f]]

\* if (!is.null(cycle_data) && nrow(cycle_data) > 0) ... else ...
integrate_cycle(aligned_spreads, cycle_data) ==
    IF cycle_data # RNull /\ Len(cycle_data.rows) > 0
    THEN [k \in 1..Len(aligned_spreads) |->
             WithCategory(aligned_spreads[k],
                          cycle_impact_category(cycle_data.rows,
                                                aligned_spreads[k].game_date))]
    ELSE aligned_spreads

\* data_quality_score, in hundredths
data_quality_score(r) ==
    IF ~is_na(r.game_id) /\ ~is_na(r.spread) /\ ~is_na(r.total_over_under) THEN 100
    ELSE IF ~is_na(r.game_id) /\ ~is_na(r.spread) THEN 80
    ELSE IF ~is_na(r.game_id) THEN 60
    ELSE 30

Abs(x) == IF x < 0 THEN 0 - x ELSE x
\* abs(spread) > 20
spread_outlier(r) == IF is_na(r.spread) THEN NA ELSE Val(IF Abs(r.spread.num) > 20 THEN 1 ELSE 0)
\* total_over_under < 120 | total_over_under > 220
total_outlier(r) ==
    IF is_na(r.total_over_under) THEN NA
    ELSE Val(IF r.total_over_under.num < 120 \/ r.total_over_under.num > 220 THEN 1 ELSE 0)

WithQuality(r) ==
    [f \in DOMAIN r \cup {"data_quality_score", "spread_outlier", "total_outlier"} |->
        IF f = "data_quality_score" THEN data_quality_score(r)
        ELSE IF f = "spread_outlier" THEN spread_outlier(r)
        ELSE IF f = "total_outlier" THEN total_outlier(r)
        ELSE r[f]]

\* the part of sync_betting_spreads after the loop, for a non-empty collection
final_spreads(all_spreads, game_data, cycle_data) ==
    LET enhanced == integrate_cycle(align(standardize(all_spreads), game_data), cycle_data)
    IN  [k \in 1..Len(enhanced) |-> WithQuality(enhanced[k])]

\* Inputs of sync_betting_spreads
Games ==
    {[game_id |-> Val(101), game_date |-> 1,
      home_team |-> "Las Vegas Aces", away_team |-> "Seattle Storm"],
     [game_id |-> Val(102), game_date |-> 2,
      home_team |-> "Seattle Storm", away_team |-> "Las Vegas Aces"],
     [game_id |-> NA, game_date |-> 2,
      home_team |-> "Las Vegas Aces", away_team |-> "Seattle Storm"],
     [game_id |-> Val(104), game_date |-> 1,
      home_team |-> "LV Aces", away_team |-> "Seattle Storm"]}
GameTables ==
    {<<>>} \cup
    UNION {{t \in [1..n -> Games] : \A i, j \in 1..n : t[i] = t[j] => i = j} :
              n \in 1..MaxGames}
CycleRow(d, impact) == [game_date |-> d, impact_probability |-> impact]
CycleFrame(rows) == [kind |-> "data.frame", rows |-> rows]
CycleTables ==
    {RNull, CycleFrame(<<>>), CycleFrame(<<CycleRow(1, 40)>>),
     CycleFrame(<<CycleRow(1, 20), CycleRow(2, 40)>>),
     CycleFrame(<<CycleRow(1, 40), CycleRow(1, 20), CycleRow(1, 20)>>)}
SourceLists == {DefaultSources, <<"espn">>}

\* what one source can answer about the games of game_data: no record, or one
\* record per game, with or without a spread and a total that are numbers
SpreadAnswers ==
    {[spread |-> NA, total_over_under |-> Val(165)],
     [spread |-> Val(0 - 4), total_over_under |-> NA],
     [spread |-> Val(0 - 4), total_over_under |-> Val(165)],
     [spread |-> Val(25), total_over_under |-> Val(100)]}
SpreadRecord(g, answer, source_name) ==
    [game_date |-> g.game_date, home_team |-> g.home_team, away_team |-> g.away_team,
     spread |-> answer.spread, total_over_under |-> answer.total_over_under,
     source |-> source_name]
SpreadData(game_data, source_name) ==
    {<<>>} \cup
    {[k \in 1..Len(game_data) |-> SpreadRecord(game_data[k], answer, source_name)] :
        answer \in SpreadAnswers}

InitialSpreadRun ==
    [status |-> "loop", i |-> 1, all_spreads |-> <<>>, output |-> <<>>,
     warning |-> FALSE, value |-> <<>>]

InitSpreads ==
    /\ spread_env \in [game_data : GameTables, cycle_data : CycleTables,
                       sources : SourceLists]
    /\ spread_run = InitialSpreadRun
    /\ ModulesIdle /\ ServerIdle /\ EnsembleIdle /\ FeaturesIdle
    /\ PhaseIdle /\ ParityIdle /\ UiIdle
    /\ WizardIdle /\ PanelIdle /\ DailyIdle

SpreadStep(next) ==
    /\ spread_run' = next
    /\ UNCHANGED <<spread_env, wizard, panel, dailyVars>>
    /\ UNCHANGED <<moduleVars, serverVars, ensVars, featVars, phaseVars, parityVars, uiVars>>

InLoop == spread_run.status = "loop" /\ spread_run.i <= Len(spread_env.sources)

\* one iteration of the loop in which the fetch returns
FetchReturns ==
    /\ InLoop
    /\ LET source_name == spread_env.sources[spread_run.i]
       IN  \E spread_data \in SpreadData(spread_env.game_data, source_name) :
               SpreadStep(FetchSucceeded(spread_run, source_name, spread_data))

\* one iteration of the loop in which the fetch raises an error
FetchRaises ==
    /\ InLoop
    /\ SpreadStep(FetchFailed(spread_run, spread_env.sources[spread_run.i]))

\* after the loop: if (nrow(all_spreads) == 0) { warning(...); return(data.frame()) }
ReturnNoSpreads ==
    /\ spread_run.status = "loop" /\ spread_run.i > Len(spread_env.sources)
    /\ Len(spread_run.all_spreads) = 0
    /\ SpreadStep([spread_run EXCEPT !.status = "returned", !.warning = TRUE,
                                     !.value = <<>>])

\* after the loop, with records: standardize, align, integrate, score, return
ReturnSpreads ==
    /\ spread_run.status = "loop" /\ spread_run.i > Len(spread_env.sources)
    /\ Len(spread_run.all_spreads) > 0
    /\ SpreadStep([spread_run EXCEPT
           !.status = "returned",
           !.output = @ \o <<<<"Standardizing spread data...", "">>,
                             <<"Aligning spreads with game IDs...", "">>>>,
           !.value = final_spreads(spread_run.all_spreads, spread_env.game_data,
                                   spread_env.cycle_data)])

NextSpreads == FetchReturns \/ FetchRaises \/ ReturnNoSpreads \/ ReturnSpreads
SpecSpreads == InitSpreads /\ [][NextSpreads]_vars

\* the sources named by the output lines that start with tag, in order
SourcesWritten(tag) ==
    LET lines == SelectSeq(spread_run.output, LAMBDA line : line[1] = tag)
    IN  [k \in 1..Len(lines) |-> lines[k][2]]
SpreadsReturned == spread_run # Unset /\ spread_run.status = "returned"

(***************************************************************************)
(* C21: in sync_betting_spreads an error raised while one source is        *)
(* fetched is reported and does not stop the loop: the sources are fetched *)
(* one after the other until all have been, the records collected so far   *)
(* are all kept (one per game for every source that retrieved records,     *)
(* none for a source that failed), and when no source yields a record the  *)
(* function warns and returns an empty data frame without standardizing    *)
(* or aligning.                                                            *)
(***************************************************************************)
C21_FetchErrorsDoNotStop ==
    spread_run # Unset =>
        LET fetched == SourcesWritten("Fetching from")
            failed == SourcesWritten("Error fetching from")
            retrieved == SourcesWritten("Retrieved")
            collected == spread_run.all_spreads
        IN  /\ fetched = SubSeq(spread_env.sources, 1, spread_run.i - 1)
            /\ SpreadsReturned => fetched = spread_env.sources
            /\ Len(collected) = Len(retrieved) * Len(spread_env.game_data)
            /\ \A k \in 1..Len(retrieved) :
                   Len(SelectSeq(collected, LAMBDA r : r.source = retrieved[k]))
                       = Len(spread_env.game_data)
            /\ \A k \in 1..Len(failed) :
                   /\ \E j \in 1..Len(fetched) : fetched[j] = failed[k]
                   /\ \A j \in 1..Len(collected) : collected[j].source # failed[k]
            /\ (SpreadsReturned /\ Len(collected) = 0) =>
                   /\ spread_run.warning
                   /\ spread_run.value = <<>>
                   /\ SourcesWritten("Standardizing spread data...") = <<>>
                   /\ SourcesWritten("Aligning spreads with game IDs...") = <<>>
            /\ (SpreadsReturned /\ Len(collected) > 0) => ~spread_run.warning

C21_Witness ==
    /\ SpreadsReturned
    /\ SourcesWritten("Error fetching from") = <<"sportsbook">>
    /\ SourcesWritten("Retrieved") = <<"espn", "odds_api">>
    /\ Len(spread_run.all_spreads) = 4
    /\ Len(spread_run.value) > 0

(***************************************************************************)
(* C25: every row that sync_betting_spreads returns has a game_id and a    *)
(* spread that are not missing, so its data_quality_score is 1.0 (total    *)
(* present) or 0.8 (total missing); the levels 0.6 and 0.3 never occur.    *)
(***************************************************************************)
C25_QualityScoreLevels ==
    SpreadsReturned =>
        \A k \in 1..Len(spread_run.value) :
            LET row == spread_run.value[k]
            IN  /\ ~is_na(row.game_id)
                /\ ~is_na(row.spread)
                /\ row.data_quality_score \in {100, 80}
                /\ row.data_quality_score = 100 <=> ~is_na(row.total_over_under)

C25_Witness ==
    /\ SpreadsReturned
    /\ \E k \in 1..Len(spread_run.value) : spread_run.value[k].data_quality_score = 100
    /\ \E k \in 1..Len(spread_run.value) : spread_run.value[k].data_quality_score = 80
    /\ \E k \in 1..Len(spread_run.all_spreads) : is_na(spread_run.all_spreads[k].spread)
    /\ Len(spread_run.value) < Len(spread_run.all_spreads)

(***************************************************************************)
(* Wizard (React): the step, the form, and the handlers of its inputs and  *)
(* of its Back and Next buttons.                                           *)
(***************************************************************************)
FormFields == {"periodStart", "flowIntensity", "cycleLength", "hrv", "sleep", "hydration"}
\* useState({periodStart: "", ...})
InitialForm == [f \in FormFields |-> ""]
FieldValues == {"", "7", "Clear"}

\* setForm({ ...form, [e.target.name]: e.target.value })
handleChange(form, name, value) ==
    [f \in DOMAIN form \cup {name} |-> IF f = name THEN value ELSE form[f]]

nextStepUnguarded(step) == step + 1
\* if (step < 3) setStep(step + 1)
nextStep(step) == IF step < 3 THEN step + 1 ELSE step
\* if (step > 1) setStep(step - 1)
prevStep(step) == IF step > 1 THEN step - 1 ELSE step

\* the inputs rendered at a step: {step === 1 && ...}, {step === 2 && ...}
InputsShown(step) ==
    IF step = 1 THEN {"periodStart", "flowIntensity", "cycleLength"}
    ELSE IF step = 2 THEN {"hrv", "sleep", "hydration"}
    ELSE {}
\* {step === 3 && (<PredictionBox ...>)}
PredictionBoxShown(step) == step = 3

\* what the component holds and shows after an event; before is the state the
\* event's handler ran in
WizardRender(event, before, step, form) ==
    [event |-> event, before |-> before, step |-> step, form |-> form,
     inputs |-> InputsShown(step), predictionBox |-> PredictionBoxShown(step)]
WizardNow == [step |-> wizard.step, form |-> wizard.form]

InitWizard ==
    /\ wizard = WizardRender([kind |-> "mount"], [step |-> 1, form |-> InitialForm],
                             1, InitialForm)
    /\ ModulesIdle /\ ServerIdle /\ EnsembleIdle /\ FeaturesIdle
    /\ PhaseIdle /\ ParityIdle /\ UiIdle
    /\ SpreadsIdle /\ PanelIdle /\ DailyIdle

WizardStep(next) ==
    /\ wizard' = next
    /\ UNCHANGED <<spreadVars, panel, dailyVars>>
    /\ UNCHANGED <<moduleVars, serverVars, ensVars, featVars, phaseVars, parityVars, uiVars>>

\* onChange of one of the inputs on the page
ChangeField ==
    /\ wizard # Unset
    /\ \E name \in wizard.inputs, value \in FieldValues :
           WizardStep(WizardRender([kind |-> "change", name |-> name, value |-> value],
                                   WizardNow, wizard.step,
                                   handleChange(wizard.form, name, value)))
\* onClick={nextStep}
ClickNext ==
    /\ wizard # Unset
    /\ WizardStep(WizardRender([kind |-> "next"], WizardNow,
                               nextStep(wizard.step), wizard.form))
\* onClick={prevStep}
ClickBack ==
    /\ wizard # Unset
    /\ WizardStep(WizardRender([kind |-> "back"], WizardNow,
                               prevStep(wizard.step), wizard.form))

NextWizard == ChangeField \/ ClickNext \/ ClickBack
SpecWizard == InitWizard /\ [][NextWizard]_vars

(***************************************************************************)
(* C22: the Wizard's step is always 1, 2 or 3; Next at step 3 and Back at  *)
(* step 1 leave the step as it is (elsewhere they move it by one); Next    *)
(* and Back never change a form field; a field change sets the named field *)
(* to the entered value and changes neither another field nor the step;    *)
(* the prediction box is shown exactly when the step is 3.                 *)
(***************************************************************************)
C22_WizardStepAndForm ==
    wizard # Unset =>
        /\ wizard.step \in {1, 2, 3}
        /\ wizard.predictionBox <=> wizard.step = 3
        /\ wizard.event.kind = "next" =>
               /\ wizard.form = wizard.before.form
               /\ wizard.step = (IF wizard.before.step = 3 THEN 3
                                 ELSE wizard.before.step + 1)
        /\ wizard.event.kind = "back" =>
               /\ wizard.form = wizard.before.form
               /\ wizard.step = (IF wizard.before.step = 1 THEN 1
                                 ELSE wizard.before.step - 1)
        /\ wizard.event.kind = "change" =>
               /\ wizard.step = wizard.before.step
               /\ DOMAIN wizard.form = FormFields
               /\ wizard.form[wizard.event.name] = wizard.event.value
               /\ \A f \in FormFields \ {wizard.event.name} :
                      wizard.form[f] = wizard.before.form[f]

C22_Witness ==
    /\ wizard # Unset
    /\ wizard.event.kind = "next"
    /\ wizard.before.step = 3
    /\ wizard.step = 3
    /\ wizard.predictionBox
    /\ wizard.form.periodStart = "7"
    /\ wizard.form.hydration = "Clear"

(***************************************************************************)
(* LiveProjectionsPanel (React): the loading flag, the three toggles, the  *)
(* sort state, and what the table shows.  The order of the table's rows is *)
(* not modelled.                                                           *)
(***************************************************************************)
SortFields == {"league", "matchup", "projected_winner", "confidence_score", "source"}
\* the ids of mockProjectionsData
mockProjectionIds == <<"1", "2", "3", "4", "5", "6">>

handleSortKeepDirection(sortField, sortDirection, field) ==
    IF sortField = field
    THEN [sortField |-> sortField,
          sortDirection |-> IF sortDirection = "asc" THEN "desc" ELSE "asc"]
    ELSE [sortField |-> field, sortDirection |-> sortDirection]
\* handleSort: the sort state after a click on the header of field
handleSort(sortField, sortDirection, field) ==
    IF sortField = field
    THEN [sortField |-> sortField,
          sortDirection |-> IF sortDirection = "asc" THEN "desc" ELSE "asc"]
    ELSE [sortField |-> field, sortDirection |-> "desc"]

\* the useState values of the component
PanelState(loading, projections, flags, ethics, overlays, sortField, sortDirection) ==
    [loading |-> loading, projections |-> projections,
     showVolatilityFlags |-> flags, ethicsMode |-> ethics,
     satiricalOverlays |-> overlays,
     sortField |-> sortField, sortDirection |-> sortDirection]
InitialPanelState ==
    PanelState(TRUE, <<>>, TRUE, FALSE, TRUE, "confidence_score", "desc")

\* if (loading) return the skeleton; otherwise the toggles and the table
TableShown(st) == ~st.loading
\* {showVolatilityFlags && (<td> ... Volatility ...)} in each row of the table
VolatilityRows(st) ==
    IF TableShown(st) /\ st.showVolatilityFlags
    THEN {st.projections[k] : k \in 1..Len(st.projections)} ELSE {}
\* {satiricalOverlays && (<> Phase ... Fatigue ... </>)} inside the volatility cell
OverlayRows(st) == IF st.satiricalOverlays THEN VolatilityRows(st) ELSE {}
\* the caption under the toggles
ModeCaption(st) ==
    IF ~TableShown(st) THEN "none"
    ELSE IF st.ethicsMode THEN "Ethics Mode" ELSE "Satire Mode"

PanelRender(event, before, st) ==
    [event |-> event, before |-> before, state |-> st,
     table |-> TableShown(st), volatilityRows |-> VolatilityRows(st),
     overlayRows |-> OverlayRows(st), caption |-> ModeCaption(st)]

InitPanel ==
    /\ panel = PanelRender([kind |-> "mount"], InitialPanelState, InitialPanelState)
    /\ ModulesIdle /\ ServerIdle /\ EnsembleIdle /\ FeaturesIdle
    /\ PhaseIdle /\ ParityIdle /\ UiIdle
    /\ SpreadsIdle /\ WizardIdle /\ DailyIdle

PanelStep(event, st) ==
    /\ panel' = PanelRender(event, panel.state, st)
    /\ UNCHANGED <<spreadVars, wizard, dailyVars>>
    /\ UNCHANGED <<moduleVars, serverVars, ensVars, featVars, phaseVars, parityVars, uiVars>>

\* fetchProjections, after the delay: setProjections(mockProjectionsData)
ProjectionsArrive ==
    /\ panel # Unset
    /\ panel.state.loading /\ panel.state.projections = <<>>
    /\ PanelStep([kind |-> "projections"],
                 [panel.state EXCEPT !.projections = mockProjectionIds])
\* fetchProjections: setLoading(false)
LoadingDone ==
    /\ panel # Unset
    /\ panel.state.loading /\ panel.state.projections # <<>>
    /\ PanelStep([kind |-> "loaded"], [panel.state EXCEPT !.loading = FALSE])
\* onClick={() => handleSort(field)} of a column header
ClickHeader ==
    /\ panel # Unset
    /\ panel.table
    /\ \E field \in SortFields :
           LET sorted == handleSort(panel.state.sortField, panel.state.sortDirection, field)
           IN  PanelStep([kind |-> "sort", field |-> field],
                         [panel.state EXCEPT !.sortField = sorted.sortField,
                                             !.sortDirection = sorted.sortDirection])
\* onClick={() => setShowVolatilityFlags(!showVolatilityFlags)}
ToggleVolatilityFlags ==
    /\ panel # Unset
    /\ panel.table
    /\ PanelStep([kind |-> "toggle", name |-> "showVolatilityFlags"],
                 [panel.state EXCEPT !.showVolatilityFlags = ~@])
\* onClick={() => setEthicsMode(!ethicsMode)}
ToggleEthicsMode ==
    /\ panel # Unset
    /\ panel.table
    /\ PanelStep([kind |-> "toggle", name |-> "ethicsMode"],
                 [panel.state EXCEPT !.ethicsMode = ~@])
\* onClick={() => setSatiricalOverlays(!satiricalOverlays)}
ToggleSatiricalOverlays ==
    /\ panel # Unset
    /\ panel.table
    /\ PanelStep([kind |-> "toggle", name |-> "satiricalOverlays"],
                 [panel.state EXCEPT !.satiricalOverlays = ~@])

NextPanel ==
    \/ ProjectionsArrive \/ LoadingDone \/ ClickHeader
    \/ ToggleVolatilityFlags \/ ToggleEthicsMode \/ ToggleSatiricalOverlays
SpecPanel == InitPanel /\ [][NextPanel]_vars

PanelToggles == {"showVolatilityFlags", "ethicsMode", "satiricalOverlays"}
\* the sort state starts as (confidence_score, desc); a header click and a
\* toggle change what their handlers say and nothing else
SortAndToggleSteps ==
    LET st == panel.state
        was == panel.before
    IN  /\ panel.event.kind = "mount" =>
               st.sortField = "confidence_score" /\ st.sortDirection = "desc"
        /\ panel.event.kind = "sort" =>
               /\ IF was.sortField = panel.event.field
                  THEN /\ st.sortField = was.sortField
                       /\ st.sortDirection # was.sortDirection
                       /\ st.sortDirection \in {"asc", "desc"}
                  ELSE /\ st.sortField = panel.event.field
                       /\ st.sortDirection = "desc"
               /\ \A t \in PanelToggles : st[t] = was[t]
        /\ panel.event.kind = "toggle" =>
               /\ st.sortField = was.sortField
               /\ st.sortDirection = was.sortDirection
               /\ st[panel.event.name] = ~was[panel.event.name]
               /\ \A t \in PanelToggles \ {panel.event.name} : st[t] = was[t]
OverlaysShown == panel.overlayRows # {}
BothTogglesOn == panel.state.showVolatilityFlags /\ panel.state.satiricalOverlays

(***************************************************************************)
(* C23, as stated: the sort state starts as (confidence_score, desc), a    *)
(* click on the current sort field's header flips the direction, a click   *)
(* on another header makes it the sort field with direction desc, the      *)
(* toggles change neither the sort state nor each other, and the phase and *)
(* fatigue overlays are shown exactly when showVolatilityFlags and         *)
(* satiricalOverlays are both on.                                          *)
(***************************************************************************)
C23_OverlaysWheneverBothOn ==
    panel # Unset =>
        /\ SortAndToggleSteps
        /\ OverlaysShown <=> BothTogglesOn

(***************************************************************************)
(* C23, amended: the same, except that the overlays are shown exactly when *)
(* both toggles are on and the component has finished loading; while it is *)
(* loading nothing of the table is shown, whatever the toggles say.        *)
(***************************************************************************)
C23_OverlaysOnceLoaded ==
    panel # Unset =>
        /\ SortAndToggleSteps
        /\ OverlaysShown <=> (BothTogglesOn /\ ~panel.state.loading)
        /\ OverlaysShown => panel.overlayRows = {"1", "2", "3", "4", "5", "6"}

C23_Witness ==
    /\ panel # Unset
    /\ panel.event.kind = "sort"
    /\ panel.event.field = "league"
    /\ panel.before.sortField = "confidence_score"
    /\ panel.before.sortDirection = "asc"
    /\ panel.state.sortDirection = "desc"
    /\ panel.state.ethicsMode
    /\ OverlaysShown

(***************************************************************************)
(* predict_daily (model_formula.R), as POST /predict calls it.  The fitted *)
(* model's response for a row is an input, in ten-thousandths; the         *)
(* reported probability is in thousandths.                                 *)
(***************************************************************************)
MaxDailyRows == 2
\* threshold = 0.5, in ten-thousandths
DefaultThreshold == 5000
Thresholds == {DefaultThreshold, 3000}
\* responses of the model around the thresholds and at the ends
ModelResponses == {0, 2994, 2995, 3000, 3004, 4994, 4995, 4996, 5000, 5004, 5005, 10000}

\* round(probs, 3), in thousandths; a response half way between two
\* thousandths goes where its floating-point representation falls
round(p, ties) ==
    LET low == p \div 10
        rest == p % 10
    IN  IF rest < 5 THEN low
        ELSE IF rest > 5 THEN low + 1
        ELSE IF ties = "up" THEN low + 1 ELSE low

\* ifelse(probs >= threshold, "Likely", "Unlikely")
flags(p, threshold) == IF p >= threshold THEN "Likely" ELSE "Unlikely"

\* the data frame that predict_daily returns
predict_daily(newdata, threshold, ties) ==
    [k \in 1..Len(newdata) |->
        [player_id |-> newdata[k].player_id,
         date |-> newdata[k].game_date,
         probability |-> round(newdata[k].probs, ties),
         flag |-> flags(newdata[k].probs, threshold)]]

DailyRows(i) == {[player_id |-> i, game_date |-> i, probs |-> p] : p \in ModelResponses}
DailyTables ==
    {<<>>} \cup
    UNION {{t \in [1..n -> UNION {DailyRows(i) : i \in 1..n}] :
                \A i \in 1..n : t[i] \in DailyRows(i)} : n \in 1..MaxDailyRows}

InitDaily ==
    /\ \E newdata \in DailyTables, threshold \in Thresholds,
          ties \in {"down", "up"}, model_file \in {"fitted", "missing"} :
           daily_env = [newdata |-> newdata, threshold |-> threshold, ties |-> ties,
                        model_file |-> model_file]
    /\ daily_result = [status |-> "called"]
    /\ ModulesIdle /\ ServerIdle /\ EnsembleIdle /\ FeaturesIdle
    /\ PhaseIdle /\ ParityIdle /\ UiIdle
    /\ SpreadsIdle /\ WizardIdle /\ PanelIdle

DailyStep(next) ==
    /\ daily_result' = next
    /\ UNCHANGED <<daily_env, spreadVars, wizard, panel>>
    /\ UNCHANGED <<moduleVars, serverVars, ensVars, featVars, phaseVars, parityVars, uiVars>>

\* readRDS(model_path) finds the model; the predictions are returned
PredictDaily ==
    /\ daily_result = [status |-> "called"]
    /\ daily_env.model_file = "fitted"
    /\ DailyStep([status |-> "returned",
                  out |-> predict_daily(daily_env.newdata, daily_env.threshold,
                                        daily_env.ties)])
\* readRDS(model_path) raises an error
PredictDailyFails ==
    /\ daily_result = [status |-> "called"]
    /\ daily_env.model_file = "missing"
    /\ DailyStep([status |-> "error", message |-> "cannot open the connection"])

NextDaily == PredictDaily \/ PredictDailyFails
SpecDaily == InitDaily /\ [][NextDaily]_vars

DailyReturned == daily_result # Unset /\ daily_result.status = "returned"

(***************************************************************************)
(* C24: in every row returned by predict_daily the flag is "Likely"        *)
(* exactly when the probability reported in the row (rounded to three      *)
(* decimals) is greater than or equal to the threshold, and "Unlikely"     *)
(* exactly when the reported probability is below the threshold.           *)
(***************************************************************************)
C24_FlagMatchesReportedProbability ==
    DailyReturned =>
        \A k \in 1..Len(daily_result.out) :
            LET row == daily_result.out[k]
            IN  /\ row.flag \in {"Likely", "Unlikely"}
                /\ row.flag = "Likely" <=> row.probability * 10 >= daily_env.threshold
                /\ row.flag = "Unlikely" <=> row.probability * 10 < daily_env.threshold

====
